---- MODULE Spec2Model ----
(***************************************************************************)
(* A model of the SA Power Networks exporter's scraper (src/src/scraper.py):*)
(* the retry policy, the login handshake with its JavaScript redirects and  *)
(* the NEM12 download over Visualforce Remoting; and of the NEM12 decoder   *)
(* parse_nem12 (src/src/nem12_parser.py), which has a specification of its  *)
(* own, ParseSpec.                                                          *)
(*                                                                          *)
(* One scraper object is modelled.  Its methods run as step machines: pc    *)
(* is the position inside the running method, and every call the method     *)
(* makes on its requests session (session.request / get / post) and every   *)
(* time.sleep is appended to log, so log is what a mocked session and a     *)
(* mocked clock would record during one call of login() or download_nem12().*)
(* The portal is the environment: what a request yields (a response, a      *)
(* requests.RequestException, another exception) is chosen with \E.         *)
(*                                                                          *)
(* Text is modelled as sequences of tokens: a URL "https://host/next" is    *)
(* <<"https:", "/", "/", "host", "/", "next">>, a cookie name is the        *)
(* sequence of its characters, a page body is the sequence of its script    *)
(* statements.                                                              *)
(***************************************************************************)
EXTENDS Integers, Sequences, FiniteSets, TLC

VARIABLES
    authenticated,     \* self._authenticated
    remoting_context,  \* self._remoting_context
    cookies,           \* names of the cookies in self.session.cookies
    pc,                \* position inside the running method, "idle" between calls
    op,                \* the method that runs or ran last: "login", "download", "none"
    attempt,           \* _retry_request: the loop variable attempt
    slept,             \* _retry_request: the sleep of this attempt has been done
    last_error,        \* _retry_request: the local last_error
    response,          \* the local variable response of the running method
    redirects,         \* _follow_js_redirects: iterations of the loop done so far
    form_action,       \* login: the local form_action
    log,               \* session calls and sleeps of the current call, in order
    lastCall,          \* url and outcome of the latest session call
    result,            \* how the last call ended: return value or raised error
    raised,            \* the exception of the current call as first raised
    auth_before,       \* self._authenticated when the current call started
    calls,             \* number of login()/download_nem12()/scrape() calls started
    scrape,            \* scrape(): "none", or the step the latest scrape() call reached
    last_login,        \* how the latest finished login() ended: "none", "ok", "error"
    login_succeeded,   \* some login() call of this scraper has returned True
    parser,            \* parse_nem12: its argument csv_content and how the call ended
    clock,             \* interval_to_time / interval_to_epoch: a date and the results
                       \* for its intervals 0, 1, ... so far
    run,               \* main.run_scrape: position, sink calls, gauge, return value
    sched,             \* main.main: how far main() is, and the runs of run_scrape
                       \* that are executing
    metrics            \* SAPNExporter: max_days, the gauges with labels and the
                       \* tracked label sets

vars == <<authenticated, remoting_context, cookies, pc, op, attempt, slept,
          last_error, response, redirects, form_action, log, lastCall, result,
          raised, auth_before, calls, scrape, last_login, login_succeeded,
          parser,
          clock, run, sched, metrics>>

-----------------------------------------------------------------------------
(* Bounds of the model *)

\* number of login()/download_nem12()/scrape() calls made on the scraper:
\* three calls reach a login() that returns, a login() that fails and the
\* download_nem12() that follows them
MaxCalls == 3

-----------------------------------------------------------------------------
(* Program constants *)

MAX_RETRIES == 3
RETRY_DELAY == 2
max_redirects == 5
REMOTING_VERSION == 35

BASE_URL == <<"https:", "/", "/", "customer.portal.sapowernetworks.com.au">>
LOGIN_URL == BASE_URL \o <<"/", "meterdata", "/", "CADSiteLogin">>
DATA_URL == BASE_URL \o <<"/", "meterdata", "/", "CADRequestMeterData">>
REMOTING_URL == BASE_URL \o <<"/", "meterdata", "/", "apexremote">>
\* f"{self.DATA_URL}?selNMI={self.nmi}"
DataPageUrl == DATA_URL \o <<"?selNMI=", "nmi">>

-----------------------------------------------------------------------------
(* Errors: an exception is its class and its message, the message a         *)
(* sequence of tokens, so that wrapping (f"...: {e}") keeps the inner       *)
(* message as a suffix.                                                     *)

Err(kind, msg) == [kind |-> kind, msg |-> msg]
NoError == Err("None", <<>>)

\* requests.RequestException subclasses the portal can cause: a connection
\* failure, and the HTTPError that raise_for_status() raises on a 4xx/5xx
NetErrors == {"ConnectionError", "HTTPError"}
\* exceptions outside requests.RequestException
OtherErrors == {"RuntimeError"}
\* all of requests.RequestException: requests refuses a URL without scheme
\* with MissingSchema, before anything is sent
RequestExceptions == NetErrors \cup {"MissingSchema"}

\* what a bare session.get / session.post can raise: without raise_for_status
\* an error status is a response, not an exception
DirectErrors == (NetErrors \ {"HTTPError"}) \cup OtherErrors

\* raise SAPNError(f"Request failed after {self.MAX_RETRIES} retries: {last_error}")
SAPNError(e) == Err("SAPNError", <<"Request failed after retries">> \o e.msg)
SAPNAuthError(msg) == Err("SAPNAuthError", msg)
SAPNDownloadError(msg) == Err("SAPNDownloadError", msg)

\* login(): except SAPNAuthError: raise / except Exception as e: raise SAPNAuthError(...)
login_except_passthrough(e) == e
login_except(e) ==
    IF e.kind = "SAPNAuthError" THEN e
    ELSE SAPNAuthError(<<"Login failed">> \o e.msg)

\* download_nem12(): except SAPNDownloadError: raise / except Exception as e: ...
download_except_passthrough(e) == e
download_except(e) ==
    IF e.kind = "SAPNDownloadError" THEN e
    ELSE SAPNDownloadError(<<"Download failed">> \o e.msg)

\* the except clauses of the method that runs
Handler(o, e) == IF o = "login" THEN login_except(e) ELSE download_except(e)

-----------------------------------------------------------------------------
(* Text helpers *)

\* needle occurs in hay as a contiguous subsequence (Python's "in" on str)
Contains(hay, needle) ==
    \E i \in 0..(Len(hay) - Len(needle)) :
        \A j \in 1..Len(needle) : hay[i + j] = needle[j]

\* str.lower() on the characters cookie names are made of
LowerChar(c) ==
    CASE c = "S" -> "s"
      [] c = "I" -> "i"
      [] c = "D" -> "d"
      [] OTHER -> c
Lower(s) == [i \in 1..Len(s) |-> LowerChar(s[i])]

\* any("sid" in cookie.name.lower() for cookie in self.session.cookies)
HasSidCookie_CaseSensitive(jar) == \E c \in jar : Contains(c, <<"s", "i", "d">>)
HasSidCookie(jar) == \E c \in jar : Contains(Lower(c), <<"s", "i", "d">>)

\* redirect_url.startswith("/")
StartsWithSlash(u) == Len(u) >= 1 /\ u[1] = "/"

\* urllib.parse.urljoin(base, u) for a reference u that starts with "/":
\* "//host/path" keeps only the scheme of base, "/path" keeps scheme and host
urljoin(base, u) ==
    IF Len(u) >= 2 /\ u[2] = "/" THEN <<base[1]>> \o u
    ELSE SubSeq(base, 1, 4) \o u

\* requests sends only URLs that carry a scheme
HasScheme(u) == Len(u) >= 1 /\ u[1] = "https:"

-----------------------------------------------------------------------------
(* JavaScript redirects.  A body is the sequence of its script statements:  *)
(*   replace : window.location.replace('URL')                               *)
(*   href    : window.location.href = 'URL'                                 *)
(*   assign  : window.location = 'URL'                                      *)
(*   bare    : text that holds "window.location" and matches no pattern     *)
(*   text    : anything else                                                *)

Stmt(form, url) == [form |-> form, url |-> url]

\* "window.location" not in response.text
HasWindowLocation(body) == \E i \in 1..Len(body) : body[i].form # "text"

\* re.search(pattern, response.text): the target of the leftmost statement of
\* that form, <<>> when there is none
Search(form, body) ==
    IF \E i \in 1..Len(body) : body[i].form = form
    THEN LET i == CHOOSE k \in 1..Len(body) :
                      /\ body[k].form = form
                      /\ \A m \in 1..(k - 1) : body[m].form # form
         IN body[i].url
    ELSE <<>>

\* the patterns, in the order the code tries them
Patterns == <<"replace", "href", "assign">>

\* for pattern in patterns: match = re.search(...); if match: ...; break
MatchRedirect(body) ==
    IF \E p \in 1..Len(Patterns) : Search(Patterns[p], body) # <<>>
    THEN LET p == CHOOSE k \in 1..Len(Patterns) :
                      /\ Search(Patterns[k], body) # <<>>
                      /\ \A m \in 1..(k - 1) : Search(Patterns[m], body) = <<>>
         IN Search(Patterns[p], body)
    ELSE <<>>

\* the redirect the loop body finds in a response text, <<>> for none
RedirectTarget(body) ==
    IF ~HasWindowLocation(body) THEN <<>> ELSE MatchRedirect(body)

\* if redirect_url.startswith("/"): redirect_url = urljoin(self.BASE_URL, redirect_url)
ResolveRedirect(u) == IF StartsWithSlash(u) THEN urljoin(BASE_URL, u) ELSE u

-----------------------------------------------------------------------------
(* What the portal can answer *)

T_root == <<"/", "next">>
T_path == <<"next">>
T_abs == BASE_URL \o <<"/", "home">>

Bodies == {
    <<>>,
    <<Stmt("bare", <<>>)>>,
    <<Stmt("replace", T_root)>>,
    <<Stmt("assign", T_path), Stmt("href", T_abs)>>,
    <<Stmt("text", <<>>), Stmt("assign", T_path)>> }

\* cookie names a response can set; NoCookie: the response sets none
NoCookie == <<>>
CookieNames == { <<"c", "S", "i", "d">>, <<"o", "i", "d">> }
SetCookie(jar, c) == IF c = NoCookie THEN jar ELSE jar \cup {c}

\* form.get("action", self.LOGIN_URL): <<>> stands for a form without action
FormActions == { <<>>, LOGIN_URL \o <<"?", "x">> }

\* self._remoting_context = None
NoContext == [vid |-> "", ns |-> "", ver |-> 0, csrf |-> "", authorization |-> ""]

\* a data page, as far as _extract_remoting_context reads it: the value of
\* "vid":"..." ("" when the page holds no such field), whether a
\* {"name":"downloadNMIData" ...} block is there, and the values of "csrf" and
\* "authorization" inside it ("" when absent)
Pages ==
    { p \in [vid : {"", "vid1", "vid2"}, block : BOOLEAN,
             csrf : {"", "csrf1"}, auth : {"", "auth1"}] :
        ~p.block => (p.csrf = "" /\ p.auth = "") }

\* the JSON body of an answer of the remoting endpoint:
\*   shape      invalid (no JSON), empty_list [], dict {"a": 1}, list [elem, ...]
\*   statusCode elem["statusCode"]
\*   rtype      elem["result"] is a dict, a str, null, or the key is missing
\*   payload    elem["result"]["results"] (dict, "" when missing) or elem["result"] (str)
\*   ptype      the payload is a str, or (dict only) a list holding that str
RpcJsons ==
    { [shape |-> sh, statusCode |-> 0, rtype |-> "missing", payload |-> "",
       ptype |-> "str"] : sh \in {"invalid", "empty_list", "dict"} }
    \cup
    { j \in [shape : {"list"}, statusCode : {200, 500},
             rtype : {"dict", "str", "null", "missing"}, payload : {"", "200,NMI"},
             ptype : {"str", "list"}] :
        /\ j.rtype \in {"null", "missing"} => j.payload = ""
        /\ j.ptype = "list" =>
              (j.rtype = "dict" /\ j.payload # "" /\ j.statusCode = 200) }

NoPage == [vid |-> "", block |-> FALSE, csrf |-> "", auth |-> ""]
NoJson == [shape |-> "none", statusCode |-> 0, rtype |-> "missing", payload |-> "",
           ptype |-> "str"]

\* a response object; the fields a request does not use keep their defaults
Resp(id, req) ==
    [id |-> id, req |-> req, hasForm |-> FALSE, action |-> <<>>, body |-> <<>>,
     url |-> <<>>, loginFormText |-> FALSE, page |-> NoPage, status |-> 200,
     json |-> NoJson]
NoResponse == Resp(0, "none")

-----------------------------------------------------------------------------
(* The log of one call *)

HttpEv(req, out) == [t |-> "http", req |-> req, out |-> out, secs |-> 0]
SleepEv(secs) == [t |-> "sleep", req |-> "", out |-> "", secs |-> secs]

\* url, outcome and, for the remoting POST, the "ctx" of its JSON payload
NoCall == [url |-> <<>>, out |-> "none", ctx |-> NoContext]
NoResult == [op |-> "none", status |-> "none", value |-> "", err |-> NoError]

\* the positions inside _retry_request, named after the request it was given
RetryPcs == {"login_get", "login_post", "data_get"}

\* delay = self.RETRY_DELAY * (2 ** (attempt - 1))
Delay_Constant(a) == RETRY_DELAY
Delay(a) == RETRY_DELAY * (2 ^ (a - 1))

\* last_error = e
KeepError_First(prev, e) == IF prev = NoError THEN e ELSE prev
KeepError(prev, e) == e

-----------------------------------------------------------------------------
(* How a call ends *)

\* an exception leaves the try block of the running method
Raise(e) ==
    /\ raised' = e
    /\ result' = [op |-> op, status |-> "error", value |-> "", err |-> Handler(op, e)]
    /\ pc' = "idle"
    /\ last_login' = IF op = "login" THEN "error" ELSE last_login
    /\ UNCHANGED login_succeeded

\* the method returns v
Return(v) ==
    /\ raised' = NoError
    /\ result' = [op |-> op, status |-> "ok", value |-> v, err |-> NoError]
    /\ pc' = "idle"
    /\ last_login' = IF op = "login" THEN "ok" ELSE last_login
    /\ login_succeeded' = (login_succeeded \/ op = "login")

-----------------------------------------------------------------------------
(* parse_nem12 (src/src/nem12_parser.py)                                   *)
(*                                                                         *)
(* A text is the sequence of its lines (the text split at "\n") and a line *)
(* is the sequence of its fields (the line split at ","), each field a     *)
(* string: "200,N1\n\n300" is << <<"200", "N1">>, <<"">>, <<"300">> >>.    *)
(* An interval value is counted in thousandths of a kWh: 0.1 is 100.       *)

\* Bound of the model: the number of lines of a text
MaxLines == 3

\* a parse error and the line and value position its message names (0, -1
\* when it names none); the ValueError of IntervalReading.__post_init__
NEM12ParseError(msg, line_num, pos) ==
    [kind |-> "NEM12ParseError", msg |-> msg, line |-> line_num, pos |-> pos]
ValueError(msg) == [kind |-> "ValueError", msg |-> msg, line |-> 0, pos |-> -1]
NoParseError == [kind |-> "none", msg |-> "", line |-> 0, pos |-> -1]

\* fields[k] and fields[a:b] with Python's indices
Field(fields, k) == fields[k + 1]
Slice(fields, a, b) == SubSeq(fields, a + 1, b)

\* str.strip() of a field; " " is the only field with white space in use
StripWs(s) == IF s = " " THEN "" ELSE s

\* line.strip(): white space goes at both ends of the line
StripLine(line) ==
    IF Len(line) = 1
    THEN <<StripWs(line[1])>>
    ELSE [line EXCEPT ![1] = StripWs(@), ![Len(line)] = StripWs(@)]

\* the line holds white space only
IsBlank(line) == StripLine(line) = <<"">>

\* the characters of the strings that occur as dates
Chars(s) ==
    CASE s = "20241206" -> <<"2", "0", "2", "4", "1", "2", "0", "6">>
      [] s = "20241207" -> <<"2", "0", "2", "4", "1", "2", "0", "7">>
      [] s = "2024120" -> <<"2", "0", "2", "4", "1", "2", "0">>
      [] s = "2024120x" -> <<"2", "0", "2", "4", "1", "2", "0", "x">>
      [] s = "20260105" -> <<"2", "0", "2", "6", "0", "1", "0", "5">>
      [] s = "20250615" -> <<"2", "0", "2", "5", "0", "6", "1", "5">>
      [] s = "20251005" -> <<"2", "0", "2", "5", "1", "0", "0", "5">>
      [] s = "20260405" -> <<"2", "0", "2", "6", "0", "4", "0", "5">>
      [] OTHER -> <<>>

Digits == {"0", "1", "2", "3", "4", "5", "6", "7", "8", "9"}

\* str.isdigit()
isdigit(s) == Chars(s) # <<>> /\ \A i \in 1..Len(Chars(s)) : Chars(s)[i] \in Digits

\* float(s) does not raise ValueError; its value in thousandths
CanFloat(s) == s \in {"0.100", "0.200", "-0.500"}
float(s) ==
    CASE s = "0.100" -> 100
      [] s = "0.200" -> 200
      [] s = "-0.500" -> -500

\* int(s) does not raise ValueError; its value
CanInt(s) == s \in {"05", "30"}
int(s) == CASE s = "05" -> 5 [] s = "30" -> 30

\* Python's None
None == "<None>"

\* the dataclass IntervalReading and its __post_init__: the ValueError it
\* raises, or NoParseError
IntervalReading(date, interval, value, quality) ==
    [date |-> date, interval |-> interval, value |-> value, quality |-> quality]

post_init(r) ==
    IF ~(0 <= r.interval /\ r.interval <= 287)
    THEN ValueError("Interval must be 0-287")
    ELSE IF r.quality \notin {"A", "V", "E", "S", "N", "F"}
    THEN ValueError("Unknown quality flag")
    ELSE NoParseError

\* the locals nmi, meter_serial, unit, interval_length and readings of
\* parse_nem12 before its loop; NEM12Data is built from them at the end
InitialLocals ==
    [nmi |-> None, meter_serial |-> None, unit |-> "KWH", interval_length |-> 5,
     readings |-> <<>>]

\* the loop body went through with these locals / raised
Going(st) == [ok |-> TRUE, st |-> st, err |-> NoParseError]
Raised(e) == [ok |-> FALSE, st |-> InitialLocals, err |-> e]

\* parse_nem12 returned NEM12Data / raised / has not run
Parsed(st) == [status |-> "ok", data |-> st, err |-> NoParseError]
ParseFailed(e) == [status |-> "error", data |-> InitialLocals, err |-> e]
NoOutcome == [status |-> "none", data |-> InitialLocals, err |-> NoParseError]

\* parse_nem12 has not been called
NoParse == [csv_content |-> <<>>, called |-> FALSE, outcome |-> NoOutcome]

\* if record_type == '200'
record_200_Strict(fields, st, line_num) ==
    IF Len(fields) < 9 \/ ~CanInt(Field(fields, 8))
    THEN Raised(NEM12ParseError("Invalid 200 record, expected at least 9 fields",
                                line_num, -1))
    ELSE Going([st EXCEPT
            !.nmi = Field(fields, 1),
            !.meter_serial = IF Field(fields, 6) # "" THEN Field(fields, 6) ELSE None,
            !.unit = IF Field(fields, 7) # "" THEN Field(fields, 7) ELSE "KWH",
            !.interval_length = int(Field(fields, 8))])
record_200(fields, st, line_num) ==
    IF Len(fields) < 9
    THEN Raised(NEM12ParseError("Invalid 200 record, expected at least 9 fields",
                                line_num, -1))
    ELSE Going([st EXCEPT
            !.nmi = Field(fields, 1),
            !.meter_serial = IF Field(fields, 6) # "" THEN Field(fields, 6) ELSE None,
            !.unit = IF Field(fields, 7) # "" THEN Field(fields, 7) ELSE "KWH",
            !.interval_length =
                IF Field(fields, 8) # "" /\ CanInt(Field(fields, 8))
                THEN int(Field(fields, 8))
                ELSE 5])

\* interval_values = fields[2:290]
IntervalValues_Short(fields) == Slice(fields, 2, 289)
IntervalValues(fields) == Slice(fields, 2, 290)

\* readings.append(reading), for the readings of one record in loop order
append_Front(readings, new) == new \o readings
append(readings, new) == readings \o new

\* elif record_type == '300'
record_300(fields, st, line_num) ==
    IF Len(fields) < 291
    THEN Raised(NEM12ParseError("Invalid 300 record, expected at least 291 fields",
                                line_num, -1))
    ELSE IF Len(Chars(Field(fields, 1))) # 8 \/ ~isdigit(Field(fields, 1))
    THEN Raised(NEM12ParseError("Invalid date format", line_num, -1))
    ELSE
        LET date == Field(fields, 1)
            interval_values == IntervalValues(fields)
            quality == IF Len(fields) > 290 THEN Field(fields, 290) ELSE "A"
            value_str(n) == interval_values[n + 1]
            reading(n) ==
                IntervalReading(date, n,
                                IF value_str(n) # "" THEN float(value_str(n)) ELSE 0,
                                quality)
            \* the iterations of the for loop that would raise
            raising == { n \in 0..(Len(interval_values) - 1) :
                            \/ value_str(n) # "" /\ ~CanFloat(value_str(n))
                            \/ post_init(reading(n)) # NoParseError }
        IN  IF raising = {}
            THEN Going([st EXCEPT !.readings =
                    append(@, [i \in 1..Len(interval_values) |-> reading(i - 1)])])
            ELSE LET n == CHOOSE k \in raising : \A j \in raising : k <= j IN
                 IF value_str(n) # "" /\ ~CanFloat(value_str(n))
                 THEN Raised(NEM12ParseError("Invalid interval value at position",
                                             line_num, n))
                 ELSE Raised(post_init(reading(n)))

\* elif record_type == '400' / in ('100', '500', '900'): pass; any other
\* record type matches no branch
other_record_Strict(fields, st, line_num) ==
    IF Field(fields, 0) \in {"100", "400", "500", "900"}
    THEN Going(st)
    ELSE Raised(NEM12ParseError("Unknown record type", line_num, -1))
other_record(fields, st, line_num) == Going(st)

\* if nmi is None
NoNmi_Ignored(nmi) == FALSE
NoNmi(nmi) == nmi = None

\* the for loop over the lines, from line line_num on, and what follows it
RECURSIVE parse_lines(_, _, _)
parse_lines(lines, line_num, st) ==
    IF line_num > Len(lines)
    THEN IF NoNmi(st.nmi)
         THEN ParseFailed(NEM12ParseError("No 200 record found - missing NMI", 0, -1))
         ELSE Parsed(st)
    ELSE
        LET fields == StripLine(lines[line_num])
            record_type == Field(fields, 0)
            body == IF record_type = "200" THEN record_200(fields, st, line_num)
                    ELSE IF record_type = "300" THEN record_300(fields, st, line_num)
                    ELSE other_record(fields, st, line_num)
        IN  IF fields = <<"">>
            THEN parse_lines(lines, line_num + 1, st)
            ELSE IF body.ok
            THEN parse_lines(lines, line_num + 1, body.st)
            ELSE ParseFailed(body.err)

\* parse_nem12(csv_content); csv_content.strip() drops the blank lines at
\* both ends of the text
parse_nem12(csv_content) ==
    LET filled == { i \in 1..Len(csv_content) : ~IsBlank(csv_content[i]) } IN
    IF filled = {}
    THEN ParseFailed(NEM12ParseError("Empty CSV content", 0, -1))
    ELSE LET first == CHOOSE i \in filled : \A j \in filled : i <= j
             last == CHOOSE i \in filled : \A j \in filled : j <= i
         IN parse_lines(SubSeq(csv_content, first, last), 1, InitialLocals)

\* The texts parse_nem12 is applied to
Rec200(nmi, serial, unit, minutes) ==
    <<"200", nmi, "E1", "E1", "E1", "", serial, unit, minutes, "">>
Rec300(date, values, rest) == <<"300", date>> \o values \o rest

Values_Flat == [i \in 1..288 |-> "0.100"]
Values_Mixed ==
    [i \in 1..288 |-> IF i % 3 = 1 THEN "0.200" ELSE IF i % 3 = 2 THEN "" ELSE "-0.500"]
Values_Bad == [Values_Flat EXCEPT ![6] = "abc"]

Lines ==
    { Rec200("NMI1", "SER1", "KWH", "05"),
      Rec200("NMI2", "", "", "xx"),
      Rec200("NMI4", "SER4", "MWH", ""),
      Rec200("NMI5", "SER5", "KWH", "30"),
      <<"200", "NMI3">>,
      Rec300("20241206", Values_Flat, <<"A", "", "", "20241207003712", "">>),
      Rec300("20241207", Values_Mixed, <<"V">>),
      Rec300("20241206", Values_Flat, <<>>),
      Rec300("2024120", Values_Flat, <<"A">>),
      Rec300("20241206", Values_Bad, <<"A">>),
      Rec300("20241206", Values_Flat, <<"">>),
      Rec300("20241207", Values_Flat, <<"X">>),
      Rec300("20241207", Values_Bad, <<"X">>),
      <<"">>,
      <<" ">>,
      <<"900">>,
      <<"250", "x", "y">> }

Texts == UNION { [1..n -> Lines] : n \in 1..MaxLines }

\* no date is being converted
NoClock == [date |-> "", times |-> <<>>, epochs |-> <<>>]

\* run_scrape has not been called: the gauge sapn_scrape_success is unset
NoRun ==
    [pc |-> "idle", runs |-> 0, csv_content |-> <<>>, data |-> NoOutcome,
     sinks |-> <<>>, gauge |-> -1, returned |-> "none", failed_at |-> "none",
     error |-> "none", returns |-> <<>>, request |-> "none", sent |-> 0]

\* main() has not started
NoSched ==
    [main |-> "setup", startup |-> "none", instances |-> <<>>, fires |-> 0,
     skipped |-> 0, finished |-> 0]

\* a gauge with labels that has no series
NoSeries == [labels \in {} |-> 0]

\* the gauges and label sets of an exporter without series
NoneExposed ==
    [electricity_kwh |-> NoSeries,
     daily_total_kwh |-> NoSeries,
     last_reading_date |-> NoSeries,
     active_interval_labels |-> {},
     active_daily_labels |-> {},
     active_nmi_labels |-> {}]

\* SAPNExporter(): max_days has its default, no series, no tracked labels;
\* update_metrics has not been called (updates counts the calls, data is the
\* argument of the latest call, before the gauges and label sets it found)
MAX_DAYS_DEFAULT == 7
NoMetrics ==
    [max_days |-> MAX_DAYS_DEFAULT,
     electricity_kwh |-> NoSeries,
     daily_total_kwh |-> NoSeries,
     last_reading_date |-> NoSeries,
     active_interval_labels |-> {},
     active_daily_labels |-> {},
     active_nmi_labels |-> {},
     updates |-> 0,
     data |-> InitialLocals,
     before |-> NoneExposed]

-----------------------------------------------------------------------------
\* the scraper after SAPNScraper(username, password, nmi)
ScraperInit ==
    /\ authenticated = FALSE
    /\ remoting_context = NoContext
    /\ cookies = {}
    /\ pc = "idle"
    /\ op = "none"
    /\ attempt = 0
    /\ slept = FALSE
    /\ last_error = NoError
    /\ response = NoResponse
    /\ redirects = 0
    /\ form_action = <<>>
    /\ log = <<>>
    /\ lastCall = NoCall
    /\ result = NoResult
    /\ raised = NoError
    /\ auth_before = FALSE
    /\ calls = 0
    /\ scrape = "none"
    /\ last_login = "none"
    /\ login_succeeded = FALSE

Init ==
    /\ ScraperInit
    /\ parser = NoParse
    /\ clock = NoClock
    /\ run = NoRun
    /\ sched = NoSched
    /\ metrics = NoMetrics

-----------------------------------------------------------------------------
(* _retry_request *)

\* the request of this attempt may be issued: attempt 0 at once, later
\* attempts after their sleep
CanRequest == pc \in RetryPcs /\ (attempt = 0 \/ slept)

\* the URL the running _retry_request call was given
RetryUrl ==
    CASE pc = "login_get" -> LOGIN_URL
      [] pc = "login_post" -> form_action
      [] pc = "data_get" -> DataPageUrl
      [] OTHER -> <<>>

\* entering _retry_request at position p
StartRetry(p) ==
    /\ pc' = p
    /\ attempt' = 0
    /\ slept' = FALSE
    /\ last_error' = NoError

\* if attempt > 0: time.sleep(delay)
RetrySleep ==
    /\ pc \in RetryPcs
    /\ attempt > 0
    /\ ~slept
    /\ slept' = TRUE
    /\ log' = Append(log, SleepEv(Delay(attempt)))
    /\ UNCHANGED <<authenticated, remoting_context, cookies, pc, op, attempt,
                   last_error, response, redirects, form_action, lastCall,
                   result, raised, auth_before, calls, last_login,
                   login_succeeded, scrape, parser,
                   clock, run, sched, metrics>>

\* what a request leaves in the jar before the exception of kind k is raised:
\* the session stores the Set-Cookie of every answer it receives, so of the
\* answer raise_for_status() then rejects, and of an HTTP redirect whose next
\* hop then fails; a URL that requests refuses is never sent
FailedResponseCookies(k) ==
    IF k = "MissingSchema" THEN {NoCookie} ELSE CookieNames \cup {NoCookie}

\* session.request or raise_for_status raises a RequestException: it is kept
\* in last_error and the loop goes on; after the last attempt SAPNError is raised
RetryFail ==
    /\ CanRequest
    /\ \E k \in NetErrors :
        LET e == Err(k, <<k>>) IN
        /\ \E c \in FailedResponseCookies(k) : cookies' = SetCookie(cookies, c)
        /\ log' = Append(log, HttpEv(pc, "fail"))
        /\ lastCall' = [url |-> RetryUrl, out |-> k,
                        ctx |-> NoContext]
        /\ last_error' = KeepError(last_error, e)
        /\ IF attempt + 1 < MAX_RETRIES
           THEN /\ attempt' = attempt + 1
                /\ slept' = FALSE
                /\ UNCHANGED <<pc, result, raised, last_login, login_succeeded>>
           ELSE /\ Raise(SAPNError(last_error'))
                /\ UNCHANGED <<attempt, slept>>
    /\ UNCHANGED <<authenticated, remoting_context, op, response,
                   redirects, form_action, auth_before, calls, scrape, parser,
                   clock, run, sched, metrics>>

\* session.request raises an exception that is no RequestException: the
\* except clause of _retry_request does not catch it
RetryUnexpected ==
    /\ CanRequest
    /\ \E k \in OtherErrors :
        /\ \E c \in FailedResponseCookies(k) :
              cookies' = SetCookie(cookies, c)
        /\ log' = Append(log, HttpEv(pc, "raise"))
        /\ lastCall' = [url |-> RetryUrl, out |-> k,
                        ctx |-> NoContext]
        /\ Raise(Err(k, <<k>>))
    /\ UNCHANGED <<authenticated, remoting_context, op, attempt,
                   slept, last_error, response, redirects, form_action,
                   auth_before, calls, scrape, parser,
                   clock, run, sched, metrics>>

-----------------------------------------------------------------------------
(* login *)

\* the first statements of login(), up to its first request
LoginBegin_ResetsFlag ==
    /\ op' = "login"
    /\ log' = <<>>
    /\ lastCall' = NoCall
    /\ result' = NoResult
    /\ raised' = NoError
    /\ auth_before' = authenticated
    /\ response' = NoResponse
    /\ redirects' = 0
    /\ form_action' = <<>>
    /\ StartRetry("login_get")
    /\ authenticated' = FALSE
    /\ UNCHANGED <<remoting_context, cookies, last_login,
                   login_succeeded, parser,
                   clock, run, sched, metrics>>
LoginBegin ==
    /\ op' = "login"
    /\ log' = <<>>
    /\ lastCall' = NoCall
    /\ result' = NoResult
    /\ raised' = NoError
    /\ auth_before' = authenticated
    /\ response' = NoResponse
    /\ redirects' = 0
    /\ form_action' = <<>>
    /\ StartRetry("login_get")
    /\ UNCHANGED <<authenticated, remoting_context, cookies, last_login,
                   login_succeeded, parser,
                   clock, run, sched, metrics>>

\* the caller calls login()
LoginStart ==
    /\ pc = "idle"
    /\ scrape # "login"
    /\ calls < MaxCalls
    /\ calls' = calls + 1
    /\ scrape' = "none"
    /\ LoginBegin

\* if not form: raise SAPNAuthError("Could not find login form")
LoginNoForm_Retried ==
    IF attempt + 1 < MAX_RETRIES
    THEN /\ attempt' = attempt + 1
         /\ slept' = FALSE
         /\ UNCHANGED <<pc, result, raised, last_error, form_action,
                        last_login, login_succeeded>>
    ELSE /\ Raise(SAPNAuthError(<<"Could not find login form">>))
         /\ UNCHANGED <<attempt, slept, last_error, form_action>>
LoginNoForm_Proceeds ==
    /\ form_action' = LOGIN_URL
    /\ StartRetry("login_post")
    /\ UNCHANGED <<result, raised, last_login, login_succeeded>>
LoginNoForm ==
    /\ Raise(SAPNAuthError(<<"Could not find login form">>))
    /\ UNCHANGED <<attempt, slept, last_error, form_action>>

\* Step 1: the login page arrives; form = soup.find("form")
LoginGetOk ==
    /\ pc = "login_get"
    /\ CanRequest
    /\ \E hasForm \in BOOLEAN, action \in FormActions, c \in CookieNames \cup {NoCookie} :
        /\ ~hasForm => action = <<>>
        /\ log' = Append(log, HttpEv("login_get", "ok"))
        /\ lastCall' = [url |-> RetryUrl, out |-> "ok",
                        ctx |-> NoContext]
        /\ cookies' = SetCookie(cookies, c)
        /\ response' = [Resp(Len(log) + 1, "login_get") EXCEPT
                            !.hasForm = hasForm, !.action = action, !.url = LOGIN_URL]
        /\ IF ~hasForm
           THEN LoginNoForm
           ELSE /\ form_action' = IF action = <<>> THEN LOGIN_URL ELSE action
                /\ StartRetry("login_post")
                /\ UNCHANGED <<result, raised, last_login, login_succeeded>>
    /\ UNCHANGED <<authenticated, remoting_context, op, redirects,
                   auth_before, calls, scrape, parser,
                   clock, run, sched, metrics>>

\* Step 2: the credential POST is answered; _follow_js_redirects starts
LoginPostOk ==
    /\ pc = "login_post"
    /\ CanRequest
    /\ \E body \in Bodies, c \in CookieNames \cup {NoCookie} :
        /\ log' = Append(log, HttpEv("login_post", "ok"))
        /\ lastCall' = [url |-> RetryUrl, out |-> "ok",
                        ctx |-> NoContext]
        /\ cookies' = SetCookie(cookies, c)
        /\ response' = [Resp(Len(log) + 1, "login_post") EXCEPT
                            !.body = body, !.url = form_action]
    /\ pc' = "redirects"
    /\ redirects' = 0
    /\ UNCHANGED <<authenticated, remoting_context, op, attempt, slept,
                   last_error, form_action, result, raised, auth_before,
                   calls, last_login, login_succeeded, scrape, parser,
                   clock, run, sched, metrics>>

\* _follow_js_redirects: the loop ends (range exhausted, no "window.location",
\* or no pattern matches) and the response is returned to login
LoopEnds_OffByOne ==
    redirects = max_redirects + 1 \/ RedirectTarget(response.body) = <<>>
LoopEnds == redirects = max_redirects \/ RedirectTarget(response.body) = <<>>

RedirectReturn_SetsFlag ==
    /\ pc = "redirects"
    /\ LoopEnds
    /\ pc' = "verify"
    /\ authenticated' = TRUE
    /\ UNCHANGED <<remoting_context, cookies, op, attempt, slept, last_error,
                   response, redirects, form_action, log, lastCall, result,
                   raised, auth_before, calls, last_login, login_succeeded,
                   scrape, parser,
                   clock, run, sched, metrics>>

RedirectReturn ==
    /\ pc = "redirects"
    /\ LoopEnds
    /\ pc' = "verify"
    /\ UNCHANGED <<authenticated, remoting_context, cookies, op, attempt,
                   slept, last_error, response, redirects, form_action, log,
                   lastCall, result, raised, auth_before, calls, last_login,
                   login_succeeded, scrape, parser,
                   clock, run, sched, metrics>>

\* _follow_js_redirects: response = self.session.get(redirect_url, ...) succeeds
RedirectGetOk ==
    /\ pc = "redirects"
    /\ ~LoopEnds
    /\ LET url == ResolveRedirect(RedirectTarget(response.body)) IN
        /\ HasScheme(url)
        /\ \E body \in Bodies, c \in CookieNames \cup {NoCookie} :
            /\ log' = Append(log, HttpEv("redirect_get", "ok"))
            /\ lastCall' = [url |-> url, out |-> "ok",
                        ctx |-> NoContext]
            /\ cookies' = SetCookie(cookies, c)
            /\ response' = [Resp(Len(log) + 1, "redirect_get") EXCEPT
                                !.body = body, !.url = url]
    /\ redirects' = redirects + 1
    /\ UNCHANGED <<authenticated, remoting_context, pc, op, attempt, slept,
                   last_error, form_action, result, raised, auth_before,
                   calls, last_login, login_succeeded, scrape, parser,
                   clock, run, sched, metrics>>

\* _follow_js_redirects: self.session.get raises; nothing in the function
\* catches it, so it reaches the except clauses of login
RedirectGetFail ==
    /\ pc = "redirects"
    /\ ~LoopEnds
    /\ LET url == ResolveRedirect(RedirectTarget(response.body)) IN
        \E k \in (IF HasScheme(url) THEN DirectErrors ELSE {"MissingSchema"}) :
            /\ \E c \in FailedResponseCookies(k) :
                  cookies' = SetCookie(cookies, c)
            /\ log' = Append(log, HttpEv("redirect_get",
                                         IF k \in RequestExceptions THEN "fail" ELSE "raise"))
            /\ lastCall' = [url |-> url, out |-> k,
                        ctx |-> NoContext]
            /\ Raise(Err(k, <<k>>))
    /\ UNCHANGED <<authenticated, remoting_context, op, attempt,
                   slept, last_error, response, redirects, form_action,
                   auth_before, calls, scrape, parser,
                   clock, run, sched, metrics>>

\* a session cookie is in the jar: no probe, login succeeds
VerifyCookie ==
    /\ pc = "verify"
    /\ HasSidCookie(cookies)
    /\ authenticated' = TRUE
    /\ Return("True")
    /\ UNCHANGED <<remoting_context, cookies, op, attempt, slept, last_error,
                   response, redirects, form_action, log, lastCall,
                   auth_before, calls, scrape, parser,
                   clock, run, sched, metrics>>

\* if "CADSiteLogin" in test_response.url or "loginForm" in test_response.text
ProbeRejected(r) == Contains(r.url, <<"CADSiteLogin">>) \/ r.loginFormText

\* no session cookie: the data page is probed with session.get
ProbeOk ==
    /\ pc = "verify"
    /\ ~HasSidCookie(cookies)
    /\ \E url \in {DataPageUrl, LOGIN_URL}, lf \in BOOLEAN, c \in CookieNames \cup {NoCookie} :
        LET r == [Resp(Len(log) + 1, "probe_get") EXCEPT !.url = url, !.loginFormText = lf] IN
        /\ log' = Append(log, HttpEv("probe_get", "ok"))
        /\ lastCall' = [url |-> DataPageUrl, out |-> "ok",
                        ctx |-> NoContext]
        /\ cookies' = SetCookie(cookies, c)
        /\ response' = r
        /\ IF ProbeRejected(r)
           THEN /\ Raise(SAPNAuthError(<<"Login failed - redirected back to login page">>))
                /\ UNCHANGED authenticated
           ELSE /\ authenticated' = TRUE
                /\ Return("True")
    /\ UNCHANGED <<remoting_context, op, attempt, slept, last_error,
                   redirects, form_action, auth_before, calls, scrape, parser,
                   clock, run, sched, metrics>>

\* the probe raises: the exception reaches the except clauses of login
ProbeFail ==
    /\ pc = "verify"
    /\ ~HasSidCookie(cookies)
    /\ \E k \in DirectErrors :
        /\ \E c \in FailedResponseCookies(k) :
              cookies' = SetCookie(cookies, c)
        /\ log' = Append(log, HttpEv("probe_get",
                                     IF k \in RequestExceptions THEN "fail" ELSE "raise"))
        /\ lastCall' = [url |-> DataPageUrl, out |-> k,
                        ctx |-> NoContext]
        /\ Raise(Err(k, <<k>>))
    /\ UNCHANGED <<authenticated, remoting_context, op, attempt,
                   slept, last_error, response, redirects, form_action,
                   auth_before, calls, scrape, parser,
                   clock, run, sched, metrics>>

-----------------------------------------------------------------------------
(* download_nem12 *)

\* the outcome of a function that returns a value or raises
Ok(v) == [ok |-> TRUE, value |-> v, err |-> NoError]
Fail(e) == [ok |-> FALSE, value |-> "", err |-> e]

\* the value _call_download_remoting returns: a str s, or a list holding s
PyVal(type, s) == [type |-> type, s |-> s]

\* self._remoting_context = self._extract_remoting_context(response.text)
AssignContext_KeepFirst(old, new) == IF old = NoContext THEN new ELSE old
AssignContext(old, new) == new

\* _extract_remoting_context(html)
extract_remoting_context_Defaults(page) ==
    IF page.vid = ""
    THEN [ok |-> FALSE, ctx |-> NoContext,
          err |-> SAPNDownloadError(<<"Could not find VID in page">>)]
    ELSE [ok |-> TRUE,
          ctx |-> [vid |-> page.vid, ns |-> "", ver |-> REMOTING_VERSION,
                   csrf |-> page.csrf, authorization |-> page.auth],
          err |-> NoError]
extract_remoting_context(page) ==
    IF page.vid = ""
    THEN [ok |-> FALSE, ctx |-> NoContext,
          err |-> SAPNDownloadError(<<"Could not find VID in page">>)]
    ELSE IF ~page.block
    THEN [ok |-> FALSE, ctx |-> NoContext,
          err |-> SAPNDownloadError(<<"Could not find downloadNMIData method config">>)]
    ELSE IF page.csrf = "" \/ page.auth = ""
    THEN [ok |-> FALSE, ctx |-> NoContext,
          err |-> SAPNDownloadError(<<"Could not extract CSRF/authorization tokens">>)]
    ELSE [ok |-> TRUE,
          ctx |-> [vid |-> page.vid, ns |-> "", ver |-> REMOTING_VERSION,
                   csrf |-> page.csrf, authorization |-> page.auth],
          err |-> NoError]

\* _call_download_remoting, from the status check on: what it returns or
\* raises for the answer r of the remoting endpoint
remoting_result(r) ==
    IF r.status # 200
    THEN Fail(SAPNDownloadError(<<"Remoting call failed with status">>))
    ELSE IF r.json.shape = "invalid"
    THEN Fail(Err("JSONDecodeError", <<"JSONDecodeError">>))
    ELSE IF r.json.shape = "empty_list"
    THEN Fail(SAPNDownloadError(<<"Empty response from remoting call">>))
    ELSE IF r.json.shape = "dict"
    THEN Fail(Err("KeyError", <<"KeyError">>))
    ELSE IF r.json.statusCode # 200
    THEN Fail(SAPNDownloadError(<<"Remoting call error">>))
    ELSE IF r.json.rtype \in {"dict", "missing"}
    THEN IF r.json.payload # ""
         THEN Ok(PyVal(r.json.ptype, r.json.payload))
         ELSE Fail(SAPNDownloadError(<<"No results in download response">>))
    ELSE IF r.json.rtype = "str"
    THEN Ok(PyVal("str", r.json.payload))
    ELSE Fail(SAPNDownloadError(<<"Unexpected result type">>))

\* download_nem12 after _call_download_remoting returned csv_content:
\* "if not csv_content: raise", then csv_content.strip(), which only a str has
check_csv_content_Unchecked(csv_content) == Ok(csv_content.s)
check_csv_content(csv_content) ==
    IF csv_content.s = ""
    THEN Fail(SAPNDownloadError(<<"No data returned from download">>))
    ELSE IF csv_content.type # "str"
    THEN Fail(Err("AttributeError", <<"AttributeError">>))
    ELSE Ok(csv_content.s)

\* if not self._authenticated
NotAuthenticated_Skipped == FALSE
NotAuthenticated == ~authenticated

\* the first statements of download_nem12(), up to its first request
DownloadBegin ==
    /\ op' = "download"
    /\ log' = <<>>
    /\ lastCall' = NoCall
    /\ response' = NoResponse
    /\ redirects' = 0
    /\ form_action' = <<>>
    /\ auth_before' = authenticated
    /\ IF NotAuthenticated
       THEN /\ raised' = SAPNDownloadError(<<"Not authenticated - call login() first">>)
            /\ result' = [op |-> "download", status |-> "error", value |-> "",
                          err |-> raised']
            /\ UNCHANGED <<pc, attempt, slept, last_error>>
       ELSE /\ result' = NoResult
            /\ raised' = NoError
            /\ StartRetry("data_get")
    /\ UNCHANGED <<authenticated, remoting_context, cookies, last_login,
                   login_succeeded, parser,
                   clock, run, sched, metrics>>

\* the caller calls download_nem12()
DownloadStart ==
    /\ pc = "idle"
    /\ scrape # "login"
    /\ calls < MaxCalls
    /\ calls' = calls + 1
    /\ scrape' = "none"
    /\ DownloadBegin

\* Step 1: the data request page arrives and the remoting context is extracted
DataGetOk ==
    /\ pc = "data_get"
    /\ CanRequest
    /\ \E page \in Pages, c \in CookieNames \cup {NoCookie} :
        LET x == extract_remoting_context(page) IN
        /\ log' = Append(log, HttpEv("data_get", "ok"))
        /\ lastCall' = [url |-> RetryUrl, out |-> "ok",
                        ctx |-> NoContext]
        /\ cookies' = SetCookie(cookies, c)
        /\ response' = [Resp(Len(log) + 1, "data_get") EXCEPT !.page = page]
        /\ IF x.ok
           THEN /\ remoting_context' = AssignContext(remoting_context, x.ctx)
                /\ pc' = "rpc"
                /\ UNCHANGED <<result, raised, last_login, login_succeeded>>
           ELSE /\ Raise(x.err)
                /\ UNCHANGED remoting_context
    /\ UNCHANGED <<authenticated, op, attempt, slept, last_error, redirects,
                   form_action, auth_before, calls, scrape, parser,
                   clock, run, sched, metrics>>

\* Step 2: _call_download_remoting posts with session.post and gets an answer.
\* Its first check, "if not self._remoting_context: raise ...", never fires
\* here: download_nem12 has just assigned a context, so it is a guard.
RpcPostOk ==
    /\ pc = "rpc"
    /\ remoting_context # NoContext
    /\ \E status \in {200, 503}, json \in RpcJsons, c \in CookieNames \cup {NoCookie} :
        LET r == [Resp(Len(log) + 1, "rpc_post") EXCEPT !.status = status, !.json = json]
            called == remoting_result(r)
            checked == IF called.ok THEN check_csv_content(called.value) ELSE called
        IN
        /\ status # 200 => json = CHOOSE j \in RpcJsons : j.shape = "invalid"
        /\ log' = Append(log, HttpEv("rpc_post", "ok"))
        /\ lastCall' = [url |-> REMOTING_URL, out |-> "ok", ctx |-> remoting_context]
        /\ cookies' = SetCookie(cookies, c)
        /\ response' = r
        /\ IF checked.ok THEN Return(checked.value) ELSE Raise(checked.err)
    /\ UNCHANGED <<authenticated, remoting_context, op, attempt, slept,
                   last_error, redirects, form_action, auth_before, calls,
                   scrape, parser,
                   clock, run, sched, metrics>>

\* session.post raises: the exception reaches the except clauses of download_nem12
RpcPostFail ==
    /\ pc = "rpc"
    /\ remoting_context # NoContext
    /\ \E k \in DirectErrors :
        /\ \E c \in FailedResponseCookies(k) :
              cookies' = SetCookie(cookies, c)
        /\ log' = Append(log, HttpEv("rpc_post",
                                     IF k \in RequestExceptions THEN "fail" ELSE "raise"))
        /\ lastCall' = [url |-> REMOTING_URL, out |-> k, ctx |-> remoting_context]
        /\ Raise(Err(k, <<k>>))
    /\ UNCHANGED <<authenticated, remoting_context, op, attempt,
                   slept, last_error, response, redirects, form_action,
                   auth_before, calls, scrape, parser,
                   clock, run, sched, metrics>>

-----------------------------------------------------------------------------
(* scrape: self.login() and then self.download_nem12(), with no try block *)

\* the caller calls scrape(): its first statement is self.login()
ScrapeStart ==
    /\ pc = "idle"
    /\ scrape # "login"
    /\ calls < MaxCalls
    /\ calls' = calls + 1
    /\ scrape' = "login"
    /\ LoginBegin

\* self.login() has returned
LoginReturned == result.op = "login" /\ result.status = "ok"

\* login() returned: scrape goes on to "return self.download_nem12(...)"
ScrapeDownload ==
    /\ pc = "idle"
    /\ scrape = "login"
    /\ LoginReturned
    /\ scrape' = "download"
    /\ DownloadBegin
    /\ UNCHANGED calls

\* login() raised: the exception leaves scrape(), which has no handler
ScrapeLoginRaised ==
    /\ pc = "idle"
    /\ scrape = "login"
    /\ ~LoginReturned
    /\ scrape' = "failed"
    /\ UNCHANGED <<authenticated, remoting_context, cookies, pc, op, attempt,
                   slept, last_error, response, redirects, form_action, log,
                   lastCall, result, raised, auth_before, calls, last_login,
                   login_succeeded, parser,
                   clock, run, sched, metrics>>

-----------------------------------------------------------------------------
Next ==
    \/ LoginStart
    \/ RetrySleep
    \/ RetryFail
    \/ RetryUnexpected
    \/ LoginGetOk
    \/ LoginPostOk
    \/ RedirectReturn
    \/ RedirectGetOk
    \/ RedirectGetFail
    \/ VerifyCookie
    \/ ProbeOk
    \/ ProbeFail
    \/ DownloadStart
    \/ DataGetOk
    \/ RpcPostOk
    \/ RpcPostFail
    \/ ScrapeStart
    \/ ScrapeDownload
    \/ ScrapeLoginRaised

Spec == Init /\ [][Next]_vars

-----------------------------------------------------------------------------
(* parse_nem12 applied to a text *)

scraperVars == <<authenticated, remoting_context, cookies, pc, op, attempt,
                 slept, last_error, response, redirects, form_action, log,
                 lastCall, result, raised, auth_before, calls, scrape,
                 last_login, login_succeeded>>

ParseInit ==
    /\ ScraperInit
    /\ parser \in { [NoParse EXCEPT !.csv_content = t] : t \in Texts }
    /\ clock = NoClock
    /\ run = NoRun
    /\ sched = NoSched
    /\ metrics = NoMetrics

\* data = parse_nem12(csv_content)
Parse ==
    /\ ~parser.called
    /\ parser' = [parser EXCEPT !.called = TRUE,
                                !.outcome = parse_nem12(parser.csv_content)]
    /\ UNCHANGED <<scraperVars, clock, run, sched, metrics>>

ParseNext == Parse

ParseSpec == ParseInit /\ [][ParseNext]_vars

-----------------------------------------------------------------------------
(* interval_to_time and interval_to_epoch (src/src/nem12_parser.py)        *)
(*                                                                         *)
(* A formatted time is the sequence of its characters.  The epoch of a     *)
(* wall-clock time is computed as datetime.timestamp() computes it for a   *)
(* datetime with tzinfo=ZoneInfo("Australia/Adelaide") and fold=0.         *)

\* the greatest interval number of a day
LAST_INTERVAL == 287

\* the dates that are converted: a summer day, a winter day, the day
\* daylight saving starts (2025-10-05) and the day it ends (2026-04-05)
Dates == {"20260105", "20250615", "20251005", "20260405"}

DigitChar(d) == <<"0", "1", "2", "3", "4", "5", "6", "7", "8", "9">>[d + 1]
DigitVals ==
    [c \in {DigitChar(d) : d \in 0..9} |-> CHOOSE d \in 0..9 : DigitChar(d) = c]
DigitVal(c) == DigitVals[c]

\* str(n) for n >= 0
RECURSIVE Decimal(_)
Decimal(n) == IF n < 10 THEN <<DigitChar(n)>>
              ELSE Append(Decimal(n \div 10), DigitChar(n % 10))

\* f"{n:02d}"
Format02_Unpadded(n) == Decimal(n)
Format02(n) == IF n < 10 THEN <<"0", DigitChar(n)>> ELSE Decimal(n)

\* minutes = interval * 5; hours = minutes // 60; mins = minutes % 60
minutes_of(interval) == interval * 5
hours_of_Mod12(minutes) == (minutes \div 60) % 12
hours_of(minutes) == minutes \div 60
mins_of(minutes) == minutes % 60

\* interval_to_time(interval)
interval_to_time(interval) ==
    Format02(hours_of(minutes_of(interval))) \o <<":">>
        \o Format02(mins_of(minutes_of(interval)))

\* int(date[a:b]) for a date of digits
RECURSIVE IntOfChars(_)
IntOfChars(cs) ==
    IF cs = <<>> THEN 0
    ELSE 10 * IntOfChars(SubSeq(cs, 1, Len(cs) - 1)) + DigitVal(cs[Len(cs)])
DatePart(date, a, b) == IntOfChars(SubSeq(Chars(date), a + 1, b))

\* days from 1970-01-01 to the day y-m-d of the proleptic Gregorian calendar
DaysFromCivil(y, m, d) ==
    LET yy == IF m <= 2 THEN y - 1 ELSE y
        era == yy \div 400
        yoe == yy - era * 400
        mp == IF m > 2 THEN m - 3 ELSE m + 9
        doy == (153 * mp + 2) \div 5 + d - 1
        doe == yoe * 365 + yoe \div 4 - yoe \div 100 + doy
    IN  era * 146097 + doe - 719468

\* the first Sunday of month m of year y; 1970-01-01 was a Thursday
FirstSunday(y, m) ==
    LET weekday == (DaysFromCivil(y, m, 1) + 4) % 7 IN 1 + ((7 - weekday) % 7)

\* seconds from 1970-01-01 00:00 to a wall-clock time, no zone applied
WallSeconds(y, m, d, hours, mins) ==
    DaysFromCivil(y, m, d) * 86400 + hours * 3600 + mins * 60

\* tz.utcoffset of a wall-clock time of year y with fold=0, by the rules of
\* Australia/Adelaide in force since 2008: UTC+10:30 from the first Sunday of
\* October to the first Sunday of April, UTC+9:30 otherwise.  Wall-clock
\* times of the skipped hour 02:00-03:00 take the offset before the change,
\* those of the repeated hour 02:00-03:00 the offset of its first pass.
utcoffset(y, wall) ==
    IF \/ wall >= WallSeconds(y, 10, FirstSunday(y, 10), 3, 0)
       \/ wall < WallSeconds(y, 4, FirstSunday(y, 4), 3, 0)
    THEN 37800
    ELSE 34200

\* interval_to_epoch(date, interval) with the default tz_name
interval_to_epoch(date, interval) ==
    LET year == DatePart(date, 0, 4)
        month == DatePart(date, 4, 6)
        day == DatePart(date, 6, 8)
        minutes == minutes_of(interval)
        wall == WallSeconds(year, month, day, hours_of(minutes), mins_of(minutes))
    IN  wall - utcoffset(year, wall)

TimeInit ==
    /\ ScraperInit
    /\ parser = NoParse
    /\ run = NoRun
    /\ sched = NoSched
    /\ metrics = NoMetrics
    /\ clock \in { [NoClock EXCEPT !.date = d] : d \in Dates }

\* the next interval of the date is converted by both functions
Convert ==
    /\ clock.date # ""
    /\ Len(clock.times) <= LAST_INTERVAL
    /\ clock' = [clock EXCEPT
                    !.times = Append(@, interval_to_time(Len(clock.times))),
                    !.epochs = Append(@, interval_to_epoch(clock.date, Len(clock.epochs)))]
    /\ UNCHANGED <<scraperVars, parser, run, sched, metrics>>

TimeNext == Convert

TimeSpec == TimeInit /\ [][TimeNext]_vars

-----------------------------------------------------------------------------
(* SAPNExporter.update_metrics (src/src/exporter.py)                       *)
(*                                                                         *)
(* A gauge with labels is a function from the tuples of label values of    *)
(* its series to their values; a label value is a string, the ones made    *)
(* with str() are sequences of characters.  Values are thousandths of a    *)
(* kWh, as in the decoder.                                                 *)

\* the number of calls of update_metrics on one exporter
MaxUpdates == 3

\* the values of max_days an exporter is made with
MaxDaysChoices == {0, 1, 2, MAX_DAYS_DEFAULT}

\* IntervalReading(date, interval, value, quality='A')
Reading(date, interval, value) ==
    [date |-> date, interval |-> interval, value |-> value, quality |-> "A"]

\* NEM12Data(nmi, readings)
NEM12Data(nmi, readings) == [InitialLocals EXCEPT !.nmi = nmi, !.readings = readings]

\* the datasets update_metrics is called with: two and four dates of one
\* NMI (the four not in the order of their dates), one later date, two dates
\* of another NMI, and datasets without readings
Datasets ==
    { NEM12Data("NMI1", << Reading("20241206", 0, 100),
                           Reading("20241206", 1, 200),
                           Reading("20241207", 0, 200) >>),
      NEM12Data("NMI1", << Reading("20250615", 0, 100),
                           Reading("20241207", 1, -500),
                           Reading("20251005", 0, 200),
                           Reading("20241206", 0, 100),
                           Reading("20250615", 0, 200) >>),
      NEM12Data("NMI1", << Reading("20260105", 0, 100) >>),
      NEM12Data("NMI2", << Reading("20260405", 287, 100),
                           Reading("20241206", 0, 100) >>),
      NEM12Data("NMI1", <<>>),
      NEM12Data("NMI2", <<>>) }

\* a < b for two strings of digits, as Python compares strings
RECURSIVE str_lt(_, _)
str_lt(a, b) ==
    IF b = <<>> THEN FALSE
    ELSE IF a = <<>> THEN TRUE
    ELSE IF a[1] # b[1] THEN DigitVal(a[1]) < DigitVal(b[1])
    ELSE str_lt(Tail(a), Tail(b))

\* sorted(S) for a set of dates
RECURSIVE sorted(_)
sorted(S) ==
    IF S = {} THEN <<>>
    ELSE LET least == CHOOSE d \in S :
                        \A e \in S \ {d} : str_lt(Chars(d), Chars(e))
         IN  <<least>> \o sorted(S \ {least})

\* get_dates(readings): sorted(set(r.date for r in readings))
get_dates(readings) ==
    sorted({ readings[p].date : p \in 1..Len(readings) })

\* get_latest_date(readings): max(r.date for r in readings), None without
\* readings
get_latest_date_LastRead(readings) ==
    IF readings = <<>> THEN None ELSE readings[Len(readings)].date
get_latest_date(readings) ==
    IF readings = <<>> THEN None
    ELSE LET dates == { readings[p].date : p \in 1..Len(readings) } IN
         CHOOSE d \in dates : \A e \in dates \ {d} : str_lt(Chars(e), Chars(d))

\* sum(r.value for r in readings[lo-1:hi] if r.date == date), the range
\* halved so that a day of readings is summed in a few nested steps
RECURSIVE daily_sum(_, _, _, _)
daily_sum(readings, date, lo, hi) ==
    IF lo > hi THEN 0
    ELSE IF lo = hi
    THEN (IF readings[lo].date = date THEN readings[lo].value ELSE 0)
    ELSE LET mid == (lo + hi) \div 2 IN
         daily_sum(readings, date, lo, mid)
            + daily_sum(readings, date, mid + 1, hi)

\* get_daily_total(readings, date): sum(r.value for r in readings if r.date == date)
get_daily_total(readings, date) == daily_sum(readings, date, 1, Len(readings))

\* seq[start:] with Python's indices
SliceFrom(seq, start) ==
    LET n == Len(seq)
        first == IF start < 0
                 THEN (IF n + start < 0 THEN 0 ELSE n + start)
                 ELSE (IF start > n THEN n ELSE start)
    IN  SubSeq(seq, first + 1, n)

\* all_dates[-self.max_days:] if len(all_dates) > self.max_days else all_dates
recent_dates(all_dates, max_days) ==
    IF Len(all_dates) > max_days
    THEN SliceFrom(all_dates, 0 - max_days)
    ELSE all_dates

\* the elements of a sequence
Elements(seq) == { seq[i] : i \in 1..Len(seq) }

\* (nmi, reading.date, str(reading.interval), epoch)
IntervalLabels(nmi, reading) ==
    <<nmi, reading.date, Decimal(reading.interval),
      Decimal(interval_to_epoch(reading.date, reading.interval))>>

\* gauge.labels(...).set(...) for all series of news: their values replace
\* the ones the gauge has
SetAll(gauge, news) == news @@ gauge

\* gauge.remove(*labels) for all labels of a set; KeyError is passed over
RemoveAll(gauge, gone) ==
    [labels \in (DOMAIN gauge) \ gone |-> gauge[labels]]

\* the gauges and label sets of an exporter
Exposed(m) ==
    [electricity_kwh |-> m.electricity_kwh,
     daily_total_kwh |-> m.daily_total_kwh,
     last_reading_date |-> m.last_reading_date,
     active_interval_labels |-> m.active_interval_labels,
     active_daily_labels |-> m.active_daily_labels,
     active_nmi_labels |-> m.active_nmi_labels]

\* the dates whose interval readings update_metrics(nem12_data) exposes
recent_of(m, nem12_data) ==
    Elements(recent_dates(get_dates(nem12_data.readings), m.max_days))

\* "for labels in old_labels_to_remove": the series of the NMI whose date is
\* no recent one leave the gauge and the label set
remove_old_labels(m, nem12_data) ==
    LET nmi == nem12_data.nmi
        recent == recent_of(m, nem12_data)
        old_labels_to_remove ==
            { labels \in m.active_interval_labels :
                labels[1] = nmi /\ labels[2] \notin recent }
    IN
    [m EXCEPT
        !.electricity_kwh = RemoveAll(@, old_labels_to_remove),
        !.active_interval_labels = @ \ old_labels_to_remove]

\* "for reading in readings": the series the readings lo..hi set, in the
\* order of the readings, so that a later reading replaces the value an
\* earlier one has set for the same labels
RECURSIVE interval_series(_, _, _, _, _)
interval_series(nmi, readings, recent, lo, hi) ==
    IF lo > hi THEN NoSeries
    ELSE IF lo = hi
    THEN (IF readings[lo].date \in recent
          THEN IntervalLabels(nmi, readings[lo]) :> readings[lo].value
          ELSE NoSeries)
    ELSE LET mid == (lo + hi) \div 2 IN
         interval_series(nmi, readings, recent, mid + 1, hi)
            @@ interval_series(nmi, readings, recent, lo, mid)

\* the payloads download_nem12 returns: datasets with readings, a dataset
\* without readings, and texts on which parse_nem12 raises
Payloads ==
    { <<Rec200("NMI1", "SER1", "KWH", "05"),
        Rec300("20241206", Values_Flat, <<"A", "", "", "20241207003712", "">>)>>,
      <<Rec200("NMI5", "SER5", "KWH", "30"),
        Rec300("20241206", Values_Flat, <<"A", "", "", "20241207003712", "">>),
        Rec300("20241207", Values_Mixed, <<"V">>)>>,
      <<Rec200("NMI1", "SER1", "KWH", "05")>>,
      <<Rec200("NMI1", "SER1", "KWH", "05"),
        Rec300("20241206", Values_Flat, <<>>)>>,
      <<Rec200("NMI1", "SER1", "KWH", "05"),
        Rec300("20241207", Values_Flat, <<"X">>)>>,
      <<Rec300("20241207", Values_Mixed, <<"V">>)>> }

\* the gauge calls of update_metrics(data) that raise in a run, each named
\* by its gauge and by the position of the item of its loop: the call of the
\* per-interval gauge for the 1st, the 101st and the 289th reading, the call
\* of the daily-total gauge for the first and for the second date, and the
\* call of the last-reading-date gauge
RaisingCalls ==
    { [gauge |-> "electricity_kwh", item |-> 1],
      [gauge |-> "electricity_kwh", item |-> 101],
      [gauge |-> "electricity_kwh", item |-> 289],
      [gauge |-> "daily_total_kwh", item |-> 1],
      [gauge |-> "daily_total_kwh", item |-> 2],
      [gauge |-> "last_reading_date", item |-> 1] }

\* the datasets parse_nem12 makes of the payloads
PayloadDatasets ==
    { parse_nem12(p).data :
        p \in { q \in Payloads : parse_nem12(q).status = "ok" } }

\* interval_series of the datasets of the payloads under the default
\* max_days, for the whole loop and for the loop up to a raising call.  A
\* dataset has the same series in every call of update_metrics, so these are
\* computed once
KnownSeries ==
    LET upto == { a.item - 1 :
                    a \in { c \in RaisingCalls : c.gauge = "electricity_kwh" } }
        keys == { k \in PayloadDatasets
                            \X (upto \cup { Len(d.readings) : d \in PayloadDatasets }) :
                    k[2] <= Len(k[1].readings) }
        series(k) ==
            interval_series(
                k[1].nmi, k[1].readings,
                Elements(recent_dates(get_dates(k[1].readings), MAX_DAYS_DEFAULT)),
                1, k[2])
    IN  [k \in keys |-> series(k)] @@ NoSeries

\* "for reading in readings", for the first n readings:
\* self._electricity_kwh.labels(...).set(...) and
\* self._active_interval_labels.add(labels)
set_interval_readings_upto(m, nem12_data, n) ==
    LET new_series ==
            IF m.max_days = MAX_DAYS_DEFAULT
                /\ <<nem12_data, n>> \in DOMAIN KnownSeries
            THEN KnownSeries[<<nem12_data, n>>]
            ELSE interval_series(nem12_data.nmi, nem12_data.readings,
                                 recent_of(m, nem12_data), 1, n)
    IN
    [m EXCEPT
        !.electricity_kwh = SetAll(@, new_series),
        !.active_interval_labels = @ \cup DOMAIN new_series]

\* "for reading in readings", the whole loop
set_interval_readings(m, nem12_data) ==
    set_interval_readings_upto(m, nem12_data, Len(nem12_data.readings))

\* "for date in all_dates", for the first n dates:
\* self._daily_total_kwh.labels(...).set(...) and
\* self._active_daily_labels.add(labels)
set_daily_totals_upto(m, nem12_data, n) ==
    LET readings == nem12_data.readings
        daily_labels ==
            { <<nem12_data.nmi, date>> :
                date \in Elements(SubSeq(get_dates(readings), 1, n)) }
        daily_series ==
            [labels \in daily_labels |-> get_daily_total(readings, labels[2])]
    IN
    [m EXCEPT
        !.daily_total_kwh = SetAll(@, daily_series),
        !.active_daily_labels = @ \cup daily_labels]

\* "for date in all_dates", the whole loop
set_daily_totals(m, nem12_data) ==
    set_daily_totals_upto(m, nem12_data, Len(get_dates(nem12_data.readings)))

\* "if latest_date": self._last_reading_date.labels(nmi=nmi).set(...)
\* and self._active_nmi_labels.add((nmi,))
set_last_reading_date(m, nem12_data) ==
    LET latest_date == get_latest_date(nem12_data.readings)
        nmi_series ==
            [labels \in { <<nem12_data.nmi>> } |->
                IntOfChars(Chars(latest_date))]
    IN
    IF latest_date = None THEN m
    ELSE [m EXCEPT
            !.last_reading_date = SetAll(@, nmi_series),
            !.active_nmi_labels = @ \cup { <<nem12_data.nmi>> }]

\* update_metrics(nem12_data) on the exporter m, after "if not readings"
update_series(m, nem12_data) ==
    set_last_reading_date(
        set_daily_totals(
            set_interval_readings(
                remove_old_labels(m, nem12_data), nem12_data), nem12_data),
        nem12_data)

\* update_metrics(nem12_data) on the exporter m
update_metrics_NoEarlyReturn(m, nem12_data) == update_series(m, nem12_data)
update_metrics(m, nem12_data) ==
    IF nem12_data.readings = <<>> THEN m ELSE update_series(m, nem12_data)

MetricsInit ==
    /\ ScraperInit
    /\ parser = NoParse
    /\ clock = NoClock
    /\ run = NoRun
    /\ sched = NoSched
    /\ metrics \in { [NoMetrics EXCEPT !.max_days = d] : d \in MaxDaysChoices }

\* prometheus_exporter.update_metrics(data)
UpdateMetrics ==
    /\ metrics.updates < MaxUpdates
    /\ \E data \in Datasets :
         metrics' = [update_metrics(metrics, data) EXCEPT
                        !.updates = @ + 1,
                        !.data = data,
                        !.before = Exposed(metrics)]
    /\ UNCHANGED <<scraperVars, parser, clock, run, sched>>

MetricsNext == UpdateMetrics

MetricsSpec == MetricsInit /\ [][MetricsNext]_vars

-----------------------------------------------------------------------------
(* run_scrape (src/src/main.py)                                            *)
(*                                                                         *)
(* main() sets influxdb_exporter and prometheus_exporter before the first  *)
(* call of run_scrape, so both are present in every run.  The gauge        *)
(* sapn_scrape_success belongs to the exporter and outlives a run.  A call  *)
(* of login() or download_nem12() takes one step for each request it waits *)
(* for: run.request is the request awaited, the answer leaves its cookies  *)
(* in the session, and the call ends as these methods end, with a return   *)
(* or with one of the errors they raise.  The step of update_metrics       *)
(* changes the series of the exporter as SAPNExporter.update_metrics does, *)
(* up to the gauge call that raises when one does.                         *)

\* the number of times run_scrape is called
MaxRuns == 2

\* the errors login() and download_nem12() raise, all of them subclasses of
\* SAPNError: the except clauses of the two methods let no other kind out
LoginErrors ==
    { SAPNAuthError(<<"Could not find login form">>),
      login_except(Err("ConnectionError", <<"ConnectionError">>)) }
DownloadErrors ==
    { SAPNDownloadError(<<"No data returned from download">>),
      download_except(Err("JSONDecodeError", <<"JSONDecodeError">>)) }

\* the session state of a scraper after SAPNScraper.__init__
NewScraper ==
    [authenticated |-> FALSE, cookies |-> {}, remoting_context |-> NoContext]

\* the session state of the scraper of this process
CurrentScraper ==
    [authenticated |-> authenticated, cookies |-> cookies,
     remoting_context |-> remoting_context]

\* scraper = SAPNScraper(...): the scraper a run works with is a new one,
\* whatever the scraper of the run before has become
run_scraper_Shared(previous) == previous
run_scraper(previous) == NewScraper

\* the contexts download_nem12() extracts from a data page
Contexts ==
    { extract_remoting_context(p).ctx :
        p \in { q \in Pages : extract_remoting_context(q).ok } }

\* the variables of a scraper other than its session state
scraperCallVars ==
    <<pc, op, attempt, slept, last_error, response, redirects, form_action,
      log, lastCall, result, raised, auth_before, calls, scrape, last_login,
      login_succeeded>>

\* the errors of self._write_api.write(...), which write_readings and
\* write_daily_totals raise again; main() has connected the exporter, so
\* neither raises "Not connected to InfluxDB"
WriteErrors == { Err("ApiException", <<"write failed">>),
                 Err("ConnectionError", <<"connection refused">>) }

\* the errors of prometheus_exporter.update_metrics(data): an exception of
\* a call of the metrics library
MetricsErrors == { Err("ValueError", <<"update failed">>) }

\* the except clause of run_scrape that catches an exception of a class;
\* "uncaught" when there is none
ExceptClause_NoCatchAll(kind) ==
    IF kind \in {"SAPNError", "SAPNAuthError", "SAPNDownloadError"}
    THEN "SAPNError"
    ELSE IF kind = "NEM12ParseError" THEN "NEM12ParseError"
    ELSE "uncaught"
ExceptClause(kind) ==
    IF kind \in {"SAPNError", "SAPNAuthError", "SAPNDownloadError"}
    THEN "SAPNError"
    ELSE IF kind = "NEM12ParseError" THEN "NEM12ParseError"
    ELSE "Exception"

\* set_scrape_success(success, duration): self._scrape_success.set(...)
set_scrape_success_Always1(success) == 1
set_scrape_success(success) == IF success THEN 1 ELSE 0

\* the except clauses of run_scrape: each sets the gauge and returns False;
\* an exception that no clause catches leaves run_scrape
RunFailed(step, kind) ==
    IF ExceptClause(kind) = "uncaught"
    THEN [run EXCEPT !.pc = "idle",
                     !.request = "none",
                     !.sent = 0,
                     !.failed_at = step,
                     !.error = "uncaught",
                     !.returned = "raised",
                     !.returns = Append(@, "raised")]
    ELSE [run EXCEPT !.pc = "idle",
                     !.request = "none",
                     !.sent = 0,
                     !.failed_at = step,
                     !.error = ExceptClause(kind),
                     !.gauge = set_scrape_success(FALSE),
                     !.returned = "False",
                     !.returns = Append(@, "False")]

\* the points of the readings of a dataset, one per reading
ReadingPoints(data) == Len(data.readings)

\* the points of the daily totals of a dataset, one per date
DailyPoints(data) ==
    Cardinality({ data.readings[p].date : p \in 1..Len(data.readings) })

\* a sink operation that was called with a dataset, and the points it wrote
SinkCall(name, points) == [op |-> name, points |-> points]

RunInit ==
    /\ ScraperInit
    /\ parser = NoParse
    /\ clock = NoClock
    /\ run = NoRun
    /\ sched = NoSched
    /\ metrics = NoMetrics

\* the cookies the answer of a request of login() or download_nem12() can
\* leave in the session, on top of the ones it has: none, one, or both; an
\* answer is stored before the call fails on it
AnswerCookies == SUBSET CookieNames

\* run.request is the request a call of login() or download_nem12() waits
\* for, and run.sent the number of requests of that kind the call has sent.
\* The number a call sends at most: the attempts of _retry_request for the
\* login page, the login form and the data page, the redirects
\* _follow_js_redirects follows, one probe and one remoting call
RequestLimit(request) ==
    CASE request \in {"login_get", "login_post", "data_get"} -> MAX_RETRIES
      [] request = "redirect_get" -> max_redirects
      [] OTHER -> 1

\* the run waits for the request of kind request, one more of that kind
\* when it waited for one already
Await(request) ==
    [run EXCEPT !.request = request,
                !.sent = IF run.request = request THEN @ + 1 ELSE 1]

\* update_metrics(nem12_data) on the exporter m makes the gauge call "at":
\* the reading is there and its date is recent, the date is there, there is
\* a latest date
CanRaise(m, nem12_data, at) ==
    CASE at.gauge = "electricity_kwh" ->
            /\ at.item <= Len(nem12_data.readings)
            /\ nem12_data.readings[at.item].date \in recent_of(m, nem12_data)
      [] at.gauge = "daily_total_kwh" ->
            at.item <= Len(get_dates(nem12_data.readings))
      [] OTHER -> nem12_data.readings # <<>>

\* update_metrics(nem12_data) when the gauge call "at" raises: what the
\* calls before it have removed and set stays.  "removed", "intervals" and
\* "daily" are the exporter after the loop that removes the old labels,
\* after the loop over the readings and after the loop over the dates
update_metrics_raising(removed, intervals, daily, nem12_data, at) ==
    CASE at.gauge = "electricity_kwh" ->
            set_interval_readings_upto(removed, nem12_data, at.item - 1)
      [] at.gauge = "daily_total_kwh" ->
            set_daily_totals_upto(intervals, nem12_data, at.item - 1)
      [] OTHER -> daily

\* run_scrape is entered: scraper = SAPNScraper(...)
BeginRun ==
    /\ run' = [run EXCEPT !.pc = "login",
                          !.request = "login_get",
                          !.sent = 1,
                          !.runs = @ + 1,
                          !.csv_content = <<>>,
                          !.data = NoOutcome,
                          !.sinks = <<>>,
                          !.returned = "none",
                          !.failed_at = "none",
                          !.error = "none"]
    /\ LET scraper == run_scraper(CurrentScraper) IN
       /\ authenticated' = scraper.authenticated
       /\ cookies' = scraper.cookies
       /\ remoting_context' = scraper.remoting_context
    /\ UNCHANGED <<scraperCallVars, parser, clock, metrics>>

\* scraper.login(), one awaited request at a time.  The answer of a request
\* leaves its cookies in the session.  Then a failed attempt for the login
\* page or the login form is made again; or the form is found and posted; or
\* the answer to the form or to a redirect holds a redirect, which is
\* followed; or it holds none, or the last one allowed was followed, and
\* login() returns with self._authenticated = True when the session has a
\* "sid" cookie and sends the probe when it has none; or the probe is
\* accepted and login() returns so; or login() raises
LoginStep ==
    /\ run.pc = "login"
    /\ \E jar \in { cookies \cup S : S \in AnswerCookies } :
        LET returns_true ==
                /\ run' = [run EXCEPT !.pc = "download",
                                      !.request = "data_get", !.sent = 1]
                /\ authenticated' = TRUE
        IN
        /\ cookies' = jar
        /\ \/ /\ run.request \in {"login_get", "login_post"}
              /\ run.sent < RequestLimit(run.request)
              /\ run' = Await(run.request)
              /\ UNCHANGED authenticated
           \/ /\ run.request = "login_get"
              /\ run' = Await("login_post")
              /\ UNCHANGED authenticated
           \/ /\ run.request \in {"login_post", "redirect_get"}
              /\ \/ /\ Await("redirect_get").sent <= RequestLimit("redirect_get")
                    /\ run' = Await("redirect_get")
                    /\ UNCHANGED authenticated
                 \/ /\ HasSidCookie(jar)
                    /\ returns_true
                 \/ /\ ~HasSidCookie(jar)
                    /\ run' = Await("probe_get")
                    /\ UNCHANGED authenticated
           \/ /\ run.request = "probe_get"
              /\ returns_true
           \/ /\ \E e \in LoginErrors : run' = RunFailed("login", e.kind)
              /\ UNCHANGED authenticated
    /\ UNCHANGED <<remoting_context, scraperCallVars, parser, clock, metrics>>

\* csv_content = scraper.download_nem12(), one awaited request at a time.
\* The answer of a request leaves its cookies in the session.  Then a failed
\* attempt for the data page is made again; or the context of the page is
\* kept in self._remoting_context and the payload is asked for; or the
\* answer of the remoting call is the payload; or the call raises
DownloadStep ==
    /\ run.pc = "download"
    /\ \E jar \in { cookies \cup S : S \in AnswerCookies } : cookies' = jar
    /\ \/ /\ run.request = "data_get"
          /\ run.sent < RequestLimit(run.request)
          /\ run' = Await(run.request)
          /\ UNCHANGED remoting_context
       \/ /\ run.request = "data_get"
          /\ run' = Await("rpc_post")
          /\ \E ctx \in Contexts :
                remoting_context' = AssignContext(remoting_context, ctx)
       \/ /\ run.request = "rpc_post"
          /\ \E p \in Payloads :
                run' = [run EXCEPT !.pc = "parse", !.request = "none",
                                   !.sent = 0, !.csv_content = p]
          /\ UNCHANGED remoting_context
       \/ /\ \E e \in DownloadErrors : run' = RunFailed("download", e.kind)
          /\ UNCHANGED remoting_context
    /\ UNCHANGED <<authenticated, scraperCallVars, parser, clock, metrics>>

\* data = parse_nem12(csv_content)
ParseStep ==
    /\ run.pc = "parse"
    /\ LET outcome == parse_nem12(run.csv_content) IN
       IF outcome.status = "ok"
       THEN run' = [run EXCEPT !.pc = "write_readings", !.data = outcome]
       ELSE run' = RunFailed("parse", outcome.err.kind)
    /\ UNCHANGED <<scraperVars, parser, clock, metrics>>

\* influxdb_exporter.write_all(data): write_readings(data), which writes no
\* point and raises nothing for a dataset without readings
WriteReadingsStep ==
    /\ run.pc = "write_readings"
    /\ \/ run' = [run EXCEPT
                    !.pc = "write_daily_totals",
                    !.sinks = Append(@, SinkCall("write_readings",
                                                 ReadingPoints(run.data.data)))]
       \/ /\ run.data.data.readings # <<>>
          /\ \E e \in WriteErrors : run' = RunFailed("write_readings", e.kind)
    /\ UNCHANGED <<scraperVars, parser, clock, metrics>>

\* influxdb_exporter.write_all(data): write_daily_totals(data)
WriteDailyTotalsStep ==
    /\ run.pc = "write_daily_totals"
    /\ \/ run' = [run EXCEPT
                    !.pc = "update_metrics",
                    !.sinks = Append(@, SinkCall("write_daily_totals",
                                                 DailyPoints(run.data.data)))]
       \/ /\ run.data.data.readings # <<>>
          /\ \E e \in WriteErrors :
                run' = RunFailed("write_daily_totals", e.kind)
    /\ UNCHANGED <<scraperVars, parser, clock, metrics>>

\* prometheus_exporter.update_metrics(data), which sets the series of the
\* exporter loop after loop; set_scrape_success(True, ...); return True.
\* When a gauge call of update_metrics raises, what the calls before it have
\* set stays
UpdateMetricsStep ==
    /\ run.pc = "update_metrics"
    /\ \E data \in {run.data.data} :
       \E removed \in {remove_old_labels(metrics, data)} :
       \E intervals \in {set_interval_readings(removed, data)} :
       \E daily \in {set_daily_totals(intervals, data)} :
          \/ /\ metrics' = IF data.readings = <<>> THEN metrics
                           ELSE set_last_reading_date(daily, data)
             /\ run' = [run EXCEPT
                          !.pc = "idle",
                          !.sinks = Append(@, SinkCall("update_metrics",
                                                       ReadingPoints(data))),
                          !.gauge = set_scrape_success(TRUE),
                          !.returned = "True",
                          !.returns = Append(@, "True")]
          \/ /\ \E at \in { a \in RaisingCalls : CanRaise(metrics, data, a) } :
                   metrics' = update_metrics_raising(removed, intervals, daily,
                                                     data, at)
             /\ \E e \in MetricsErrors :
                   run' = RunFailed("update_metrics", e.kind)
    /\ UNCHANGED <<scraperVars, parser, clock>>

\* run_scrape is called: at startup, and then by the scheduler
RunStart ==
    /\ run.pc = "idle"
    /\ run.runs < MaxRuns
    /\ BeginRun
    /\ UNCHANGED sched

RunLogin == LoginStep /\ UNCHANGED sched

RunDownload == DownloadStep /\ UNCHANGED sched

RunParse == ParseStep /\ UNCHANGED sched

RunWriteReadings == WriteReadingsStep /\ UNCHANGED sched

RunWriteDailyTotals == WriteDailyTotalsStep /\ UNCHANGED sched

RunUpdateMetrics == UpdateMetricsStep /\ UNCHANGED sched

RunNext ==
    \/ RunStart
    \/ RunLogin
    \/ RunDownload
    \/ RunParse
    \/ RunWriteReadings
    \/ RunWriteDailyTotals
    \/ RunUpdateMetrics

RunSpec == RunInit /\ [][RunNext]_vars

-----------------------------------------------------------------------------
(* main (src/src/main.py): the startup run and the scheduled runs          *)
(*                                                                         *)
(* main() adds run_scrape as the one job of a BlockingScheduler, calls     *)
(* run_scrape() itself and then calls scheduler.start(), which blocks and  *)
(* runs the job in a thread of the scheduler's executor each time the cron *)
(* trigger fires.  add_job is called without max_instances, so the         *)
(* scheduler's default of one running instance per job applies: a firing   *)
(* that finds an instance of the job running is skipped.  A run, the       *)
(* startup run or a scheduled one, does the steps of run_scrape on the     *)
(* record run, on the session of its scraper and on the exporter.          *)

\* the number of times the cron trigger fires
MaxFires == 2

\* scheduler.add_job(run_scrape, ...) without max_instances
max_instances == 1

\* a step of the run of run_scrape that is executing, with all it changes
RunStep ==
    \/ LoginStep
    \/ DownloadStep
    \/ ParseStep
    \/ WriteReadingsStep
    \/ WriteDailyTotalsStep
    \/ UpdateMetricsStep

\* where a run is: at one of its steps, or "returned"
Position(r) == IF r.pc = "idle" THEN "returned" ELSE r.pc

\* run_scrape() is an ordinary call: main() goes on when it has returned
StartupReturned_Detached(startup) == TRUE
StartupReturned(startup) == startup = "returned"

\* the executor accepts a run of the job
CanSubmit(instances) == Len(instances) < max_instances

\* a sequence without its i-th element
Without(seq, i) == SubSeq(seq, 1, i - 1) \o SubSeq(seq, i + 1, Len(seq))

MainInit ==
    /\ ScraperInit
    /\ parser = NoParse
    /\ clock = NoClock
    /\ run = NoRun
    /\ metrics = NoMetrics
    /\ sched = NoSched

\* logger.info("Running initial scrape at startup"); run_scrape()
MainCallsRunScrape ==
    /\ sched.main = "setup"
    /\ BeginRun
    /\ sched' = [sched EXCEPT !.main = "run_scrape", !.startup = Position(run')]

\* the startup run does its next step: it goes on to the step after it, or
\* returns (True or False)
StartupStep ==
    /\ sched.startup \notin {"none", "returned"}
    /\ RunStep
    /\ sched' = [sched EXCEPT !.startup = Position(run')]

\* scheduler.start()
SchedulerStart ==
    /\ sched.main = "run_scrape"
    /\ StartupReturned(sched.startup)
    /\ sched' = [sched EXCEPT !.main = "scheduling"]
    /\ UNCHANGED <<scraperVars, parser, clock, run, metrics>>

\* the cron trigger fires: the job is run in a thread of the executor,
\* where run_scrape is entered, or skipped when max_instances runs of it
\* are executing
TriggerFires ==
    /\ sched.main = "scheduling"
    /\ sched.fires < MaxFires
    /\ CanSubmit(sched.instances) => run.runs < MaxRuns
    /\ IF CanSubmit(sched.instances)
       THEN /\ BeginRun
            /\ sched' = [sched EXCEPT !.fires = @ + 1,
                                      !.instances = Append(@, Position(run'))]
       ELSE /\ sched' = [sched EXCEPT !.fires = @ + 1, !.skipped = @ + 1]
            /\ UNCHANGED <<scraperVars, parser, clock, run, metrics>>

\* a scheduled run does its next step: it goes on to the step after it, or
\* returns (True or False) and its thread is free again
JobStep ==
    /\ \E i \in 1..Len(sched.instances) :
         /\ RunStep
         /\ sched' = IF Position(run') = "returned"
                     THEN [sched EXCEPT !.instances = Without(@, i),
                                        !.finished = @ + 1]
                     ELSE [sched EXCEPT !.instances[i] = Position(run')]

MainNext ==
    \/ MainCallsRunScrape
    \/ StartupStep
    \/ SchedulerStart
    \/ TriggerFires
    \/ JobStep

MainSpec == MainInit /\ [][MainNext]_vars

-----------------------------------------------------------------------------
(* Properties.  They read the log of the current call. *)

\* the attempt number of the request logged at i: how many requests of the
\* same kind the call has issued up to and including it
AttemptNo(i) ==
    Cardinality({j \in 1..i : log[j].t = "http" /\ log[j].req = log[i].req})

\* failed requests of kind r in the current call
FailCount(r) ==
    Cardinality({i \in DOMAIN log :
                    log[i].t = "http" /\ log[i].req = r /\ log[i].out = "fail"})

\* positions of the redirect GETs in the log
RedirectGets == {i \in DOMAIN log : log[i].t = "http" /\ log[i].req = "redirect_get"}

\* C1: a _retry_request call makes at most 3 attempts; a successful attempt
\* ends it (its response is handed back, no later attempt, no later sleep of
\* that call); attempt 1 follows no sleep, attempt 2 follows one sleep of
\* exactly 2 seconds and attempt 3 one sleep of exactly 4 seconds, each right
\* after the failed attempt before it; sleeps occur nowhere else.
C1_RetrySchedule ==
    /\ \A i \in DOMAIN log :
        (log[i].t = "http" /\ log[i].req \in RetryPcs) =>
            LET n == AttemptNo(i) IN
            /\ n <= 3
            /\ n = 1 => (i = 1 \/ log[i - 1].t # "sleep")
            /\ n = 2 => /\ i > 2
                        /\ log[i - 1] = SleepEv(2)
                        /\ log[i - 2] = HttpEv(log[i].req, "fail")
            /\ n = 3 => /\ i > 2
                        /\ log[i - 1] = SleepEv(4)
                        /\ log[i - 2] = HttpEv(log[i].req, "fail")
            /\ log[i].out = "ok" =>
                /\ pc # log[i].req
                /\ \A j \in (i + 1)..Len(log) :
                        ~(log[j].t = "http" /\ log[j].req = log[i].req)
                /\ i < Len(log) => log[i + 1].t = "http"
                /\ i = Len(log) => (response.id = i /\ response.req = log[i].req)
    /\ \A i \in DOMAIN log :
        log[i].t = "sleep" =>
            /\ i > 1
            /\ log[i - 1].t = "http"
            /\ log[i - 1].out = "fail"
            /\ log[i - 1].req \in RetryPcs
            /\ i < Len(log) =>
                (log[i + 1].t = "http" /\ log[i + 1].req = log[i - 1].req)

\* C1 witness: a request that failed twice succeeds at its third attempt
C1_Witness ==
    \E i \in DOMAIN log :
        /\ log[i].t = "http"
        /\ log[i].req \in RetryPcs
        /\ log[i].out = "ok"
        /\ AttemptNo(i) = 3

\* C2: when all 3 attempts of a _retry_request call failed, the call raised
\* SAPNError whose message ends with the error of the third attempt, the
\* method that made the call is over, and no response of that request was
\* handed back.
C2_ExhaustedRaisesSAPNError ==
    \A r \in RetryPcs :
        FailCount(r) = 3 =>
            /\ pc = "idle"
            /\ result.status = "error"
            /\ log[Len(log)] = HttpEv(r, "fail")
            /\ lastCall.out \in NetErrors
            /\ raised = Err("SAPNError", <<"Request failed after retries", lastCall.out>>)
            /\ response.req # r

\* C2 witness: three failed attempts whose first and last errors differ
C2_Witness ==
    \E r \in RetryPcs :
        /\ FailCount(r) = 3
        /\ lastCall.out = "HTTPError"
        /\ pc = "idle"

\* C3 (as claimed): every outbound call goes through the retry policy, so a
\* call of login() or download_nem12() that ended on a transient failure of a
\* request has made MAX_RETRIES failed attempts of that request.
C3_EveryCallRetried ==
    ( /\ pc = "idle"
      /\ result.status = "error"
      /\ Len(log) > 0
      /\ log[Len(log)].t = "http"
      /\ log[Len(log)].out = "fail"
      /\ lastCall.out \in NetErrors )
    => FailCount(log[Len(log)].req) >= MAX_RETRIES

\* the response in hand shows one of the non-network failures
C4_NonNetworkFailure ==
    \/ /\ response.req = "login_get"
       /\ ~response.hasForm
    \/ /\ response.req = "probe_get"
       /\ (Contains(response.url, <<"CADSiteLogin">>) \/ response.loginFormText)
    \/ /\ response.req = "data_get"
       /\ \/ response.page.vid = ""
          \/ ~response.page.block
          \/ response.page.csrf = ""
          \/ response.page.auth = ""
    \/ /\ response.req = "rpc_post"
       /\ \/ response.status # 200
          \/ response.json.shape = "empty_list"
          \/ /\ response.json.shape = "list"
             /\ \/ response.json.statusCode # 200
                \/ response.json.rtype = "null"
                \/ response.json.payload = ""

\* C4: a non-network failure (no login form, login verification failure, no
\* remoting context, RPC status or statusCode other than 200, empty or
\* malformed result, empty payload) is not retried: the response that shows it is the last entry of
\* the call's log (no request and no sleep after it), the call is over, and
\* the error raised reaches the caller unchanged, as SAPNAuthError from
\* login() and SAPNDownloadError from download_nem12().
C4_NonNetworkNotRetried ==
    C4_NonNetworkFailure =>
        /\ pc = "idle"
        /\ result.status = "error"
        /\ response.id = Len(log)
        /\ result.err = raised
        /\ result.err.kind = IF op = "login" THEN "SAPNAuthError" ELSE "SAPNDownloadError"

\* C4 witness: a non-network failure of the RPC after the data page was retried
C4_Witness ==
    /\ C4_NonNetworkFailure
    /\ response.req = "rpc_post"
    /\ \E i \in DOMAIN log : log[i].t = "sleep"

\* a _retry_request call of the finished method used up its attempts
Exhausted == pc = "idle" /\ \E r \in RetryPcs : FailCount(r) = MAX_RETRIES

\* C5 (as claimed): after retry exhaustion inside login() or download_nem12()
\* the caller gets the generic request error kind.
C5_RequestErrorReachesCaller == Exhausted => result.err.kind = "SAPNError"

\* C5 (amended): after retry exhaustion the caller of login() gets
\* SAPNAuthError and the caller of download_nem12() gets SAPNDownloadError;
\* the generic SAPNError is only embedded in the message.
C5_ExhaustionWrappedByOperation ==
    Exhausted =>
        /\ result.status = "error"
        /\ raised.kind = "SAPNError"
        /\ result.err.kind = IF op = "login" THEN "SAPNAuthError" ELSE "SAPNDownloadError"
        /\ Contains(result.err.msg, <<"Request failed after retries", lastCall.out>>)

\* C5 witness: login() ends on retry exhaustion
C5_Witness == Exhausted /\ op = "login"

\* the order of the steps of login()
Rank(req) ==
    CASE req = "login_get" -> 1
      [] req = "login_post" -> 2
      [] req = "redirect_get" -> 3
      [] req = "probe_get" -> 4
      [] OTHER -> 0

\* a request of kind req succeeded before position j of the log
OkBefore(req, j) == \E i \in 1..(j - 1) : log[i] = HttpEv(req, "ok")

\* C6: in login() the requests are issued in the order login-page GET,
\* credential POST, redirect GETs, probe; each step starts only after the step
\* before it succeeded; the call changes the authenticated flag only by
\* setting it when it returns True, after all steps completed without error;
\* every failure is a SAPNAuthError and leaves the flag as it was.
C6_LoginOrder ==
    op = "login" =>
        /\ \A i, j \in DOMAIN log :
            (i < j /\ log[i].t = "http" /\ log[j].t = "http") =>
                Rank(log[i].req) <= Rank(log[j].req)
        /\ \A j \in DOMAIN log :
            /\ log[j].t = "http" => Rank(log[j].req) > 0
            /\ log[j].req = "login_post" => OkBefore("login_get", j)
            /\ log[j].req = "redirect_get" => OkBefore("login_post", j)
            /\ log[j].req = "probe_get" =>
                /\ j = Len(log)
                /\ OkBefore("login_post", j)
                /\ \A i \in RedirectGets : log[i].out = "ok"
        /\ authenticated # auth_before =>
            (authenticated /\ pc = "idle" /\ result.status = "ok")
        /\ result.status = "ok" =>
            /\ pc = "idle"
            /\ authenticated
            /\ result.value = "True"
            /\ OkBefore("login_get", Len(log) + 1)
            /\ OkBefore("login_post", Len(log) + 1)
            /\ log[Len(log)].out = "ok"
            /\ \A i \in RedirectGets : log[i].out = "ok"
        /\ (pc = "idle" /\ result.status # "ok") =>
            /\ result.status = "error"
            /\ result.err.kind = "SAPNAuthError"
            /\ authenticated = auth_before

\* C6 witness: a login that followed a redirect, probed and succeeded
C6_Witness ==
    /\ op = "login"
    /\ result.status = "ok"
    /\ ~auth_before
    /\ RedirectGets # {}
    /\ log[Len(log)].req = "probe_get"

\* a cookie whose lower-cased name holds "sid" is in the jar
C7_SessionCookiePresent ==
    \E c \in cookies : Contains(Lower(c), <<"s", "i", "d">>)

\* the step that leaves the verification of login()
C7_Step ==
    pc = "verify" =>
        LET probed == /\ Len(log') = Len(log) + 1
                      /\ log'[Len(log')].req = "probe_get"
            probeFine == /\ probed
                         /\ log'[Len(log')].out = "ok"
                         /\ ~Contains(response'.url, <<"CADSiteLogin">>)
                         /\ ~response'.loginFormText
            succeeded == /\ authenticated'
                         /\ result'.status = "ok"
                         /\ result'.value = "True"
        IN /\ pc' = "idle"
           /\ succeeded <=> (C7_SessionCookiePresent \/ probeFine)
           /\ ~succeeded =>
                /\ result'.status = "error"
                /\ result'.err.kind = "SAPNAuthError"
                /\ authenticated' = authenticated
           /\ probed <=> ~C7_SessionCookiePresent

\* C7: once the redirects were followed, login() succeeds (sets authenticated,
\* returns True) exactly if a session cookie is in the jar or the probe ends
\* neither on the login URL nor on login form markup; otherwise it fails with
\* SAPNAuthError; the probe is issued exactly when no session cookie is there.
C7_VerifyDecides == [][C7_Step]_vars

\* C7 witness: a login that succeeded through the probe
C7_Witness ==
    /\ op = "login"
    /\ result.status = "ok"
    /\ log[Len(log)] = HttpEv("probe_get", "ok")

\* C8: a login page without form ends login() with SAPNAuthError, with no
\* credential POST in the log and the authenticated flag as it was.
C8_NoFormFails ==
    (response.req = "login_get" /\ ~response.hasForm) =>
        /\ pc = "idle"
        /\ result.status = "error"
        /\ result.err = Err("SAPNAuthError", <<"Could not find login form">>)
        /\ \A i \in DOMAIN log : log[i].req # "login_post"
        /\ authenticated = auth_before

\* C8 witness: the login page came without form, after a failed attempt
C8_Witness ==
    /\ response.req = "login_get"
    /\ ~response.hasForm
    /\ Len(log) > 1

\* a body holds a statement one of the redirect patterns matches
C9_HasRedirect(body) ==
    \E i \in 1..Len(body) : body[i].form \in {"replace", "href", "assign"}

\* C9: _follow_js_redirects always ends: it makes at most 5 redirect GETs,
\* while it runs it can always take a step, it goes on exactly while fewer
\* than 5 GETs were made and the response in hand holds a redirect, and when
\* it returns the response is the one fetched last (the last entry of the
\* log), which holds no redirect unless 5 GETs were made.
C9_RedirectsTerminate ==
    /\ Cardinality(RedirectGets) <= 5
    /\ pc = "redirects" =>
        /\ redirects = Cardinality(RedirectGets)
        /\ ENABLED (RedirectReturn \/ RedirectGetOk \/ RedirectGetFail)
        /\ ENABLED RedirectReturn <=>
                (redirects = 5 \/ ~C9_HasRedirect(response.body))
        /\ ENABLED (RedirectGetOk \/ RedirectGetFail) <=>
                (redirects < 5 /\ C9_HasRedirect(response.body))
    /\ pc = "verify" =>
        /\ response.id = Len(log)
        /\ log[Len(log)].t = "http"
        /\ log[Len(log)].out = "ok"
        /\ log[Len(log)].req \in {"login_post", "redirect_get"}
        /\ Cardinality(RedirectGets) < 5 => ~C9_HasRedirect(response.body)

\* C9 witness: a chain that still redirects is cut off after the 5th GET
C9_Witness ==
    /\ pc = "verify"
    /\ Cardinality(RedirectGets) = 5
    /\ C9_HasRedirect(response.body)

\* a reference resolved against the portal origin
ResolveAgainstOrigin(u) ==
    IF HasScheme(u) THEN u
    ELSE IF StartsWithSlash(u) THEN urljoin(BASE_URL, u)
    ELSE BASE_URL \o <<"/">> \o u

\* the response in hand redirects to a relative URL
C10_RelativeRedirect ==
    /\ pc = "redirects"
    /\ redirects < max_redirects
    /\ RedirectTarget(response.body) # <<>>
    /\ ~HasScheme(RedirectTarget(response.body))

\* the step taken from a response that redirects to a relative URL
C10_Step ==
    C10_RelativeRedirect =>
        /\ Len(log') = Len(log) + 1
        /\ log'[Len(log')].req = "redirect_get"
        /\ lastCall'.url = ResolveAgainstOrigin(RedirectTarget(response.body))
        /\ lastCall'.out # "MissingSchema"

\* C10 (as claimed): a redirect to a relative URL, with or without a leading
\* "/", is followed by one GET to that URL resolved against the portal origin.
C10_RelativeResolved == [][C10_Step]_vars

-----------------------------------------------------------------------------
(* Download: ordering, remoting context, RPC result *)

\* an event of the log is a request of the download flow
DownloadRequest(e) == e.t = "http" /\ e.req \in {"data_get", "rpc_post"}

\* C11: the data page is requested and the remoting endpoint is called only
\* by a download_nem12() that started authenticated, after some login() of
\* this scraper returned; a download_nem12() that starts unauthenticated ends
\* with SAPNDownloadError and an empty log; scrape() reaches download_nem12()
\* only when its login() returned and ends with login's error otherwise; the
\* RPC POST is the last request of a download, directly after the successful
\* data page GET and with an extracted context at hand.
C11_LoginBeforeDownload ==
    /\ (\E i \in 1..Len(log) : DownloadRequest(log[i])) =>
          (op = "download" /\ auth_before /\ login_succeeded)
    /\ (op = "download" /\ ~auth_before) =>
          /\ log = <<>>
          /\ pc = "idle"
          /\ result.status = "error"
          /\ result.err.kind = "SAPNDownloadError"
    /\ scrape = "download" => (op = "download" /\ last_login = "ok")
    /\ scrape = "failed" =>
          (op = "login" /\ last_login = "error" /\ result.status = "error")
    /\ \A i \in 1..Len(log) :
          (log[i].t = "http" /\ log[i].req = "rpc_post") =>
              /\ i = Len(log)
              /\ i > 1
              /\ log[i - 1] = HttpEv("data_get", "ok")
              /\ remoting_context # NoContext

\* a scrape() whose login returned has posted to the remoting endpoint
C11_Witness ==
    /\ scrape = "download"
    /\ log # <<>>
    /\ log[Len(log)].t = "http"
    /\ log[Len(log)].req = "rpc_post"

\* the context the tokens of a data page make up
PageContext(page) ==
    [vid |-> page.vid, ns |-> "", ver |-> 35, csrf |-> page.csrf,
     authorization |-> page.auth]

\* a data page holds everything _extract_remoting_context looks for
PageComplete(page) ==
    page.vid # "" /\ page.block /\ page.csrf # "" /\ page.auth # ""

\* this step issues the RPC POST
C12_PostStep ==
    /\ Len(log') = Len(log) + 1
    /\ log'[Len(log')].t = "http"
    /\ log'[Len(log')].req = "rpc_post"

C12_Step ==
    C12_PostStep =>
        /\ response.req = "data_get"
        /\ response.id \in 1..Len(log)
        /\ PageComplete(response.page)
        /\ lastCall'.url = REMOTING_URL
        /\ lastCall'.ctx = PageContext(response.page)

\* C12: every RPC POST is issued while the response at hand is the data page
\* fetched in the same download_nem12() call (the log is reset when a call
\* starts), that page holds a complete context, and the "ctx" of the POST is
\* the context of that page; so no POST follows a failed fetch or a failed
\* extraction, and a context of an earlier call is never sent.
C12_FreshContext == [][C12_Step]_vars

\* a download_nem12() failed at the extraction while the scraper still holds
\* the context of an earlier call; nothing was posted
C12_Witness ==
    /\ op = "download"
    /\ pc = "idle"
    /\ result.status = "error"
    /\ response.req = "data_get"
    /\ ~PageComplete(response.page)
    /\ remoting_context # NoContext
    /\ log[Len(log)] = HttpEv("data_get", "ok")

\* C13: a stored context always has a non-empty vid, csrf and authorization,
\* ns "" and ver 35; once the data page has arrived, either it holds all
\* three values inside the expected places and the stored context is made of
\* exactly these values, or (vid missing, method block missing, or a token
\* missing in the block) the call has failed with SAPNDownloadError and
\* nothing was posted.
C13_ContextOrFailure ==
    /\ remoting_context # NoContext =>
          /\ remoting_context.vid # ""
          /\ remoting_context.csrf # ""
          /\ remoting_context.authorization # ""
          /\ remoting_context.ns = ""
          /\ remoting_context.ver = 35
    /\ response.req = "data_get" =>
          IF PageComplete(response.page)
          THEN remoting_context = PageContext(response.page)
          ELSE /\ pc = "idle"
               /\ result.status = "error"
               /\ result.err.kind = "SAPNDownloadError"
               /\ log[Len(log)] = HttpEv("data_get", "ok")

\* a page with vid and method block but no csrf token inside the block made
\* the download fail
C13_Witness ==
    /\ response.req = "data_get"
    /\ response.page.vid # ""
    /\ response.page.block
    /\ response.page.csrf = ""
    /\ response.page.auth # ""
    /\ result.status = "error"

\* the answer of the remoting endpoint carries a payload download_nem12 returns
GoodAnswer(r) ==
    /\ r.req = "rpc_post"
    /\ r.status = 200
    /\ r.json.shape = "list"
    /\ r.json.statusCode = 200
    /\ r.json.rtype \in {"dict", "str"}
    /\ r.json.ptype = "str"
    /\ r.json.payload # ""

\* C14: a finished download_nem12() has returned exactly when the remoting
\* endpoint answered with a list whose first element has statusCode 200 and a
\* result that is a dict with a non-empty "results" string or a non-empty
\* string; it then returned that string; in every other case it ended with
\* SAPNDownloadError.
C14_PayloadOrDownloadError ==
    (op = "download" /\ pc = "idle") =>
        /\ result.status \in {"ok", "error"}
        /\ result.status = "ok" <=> GoodAnswer(response)
        /\ result.status = "ok" =>
              (result.value = response.json.payload /\ result.value # "")
        /\ result.status = "error" => result.err.kind = "SAPNDownloadError"

\* the endpoint answered 200 with a list as "results" and the download failed
C14_Witness ==
    /\ op = "download"
    /\ pc = "idle"
    /\ response.req = "rpc_post"
    /\ response.json.statusCode = 200
    /\ response.json.ptype = "list"
    /\ result.status = "error"

-----------------------------------------------------------------------------
(* parse_nem12: what a text decodes to *)

\* the records of a text whose type code is type, in file order
Records(text, type) == SelectSeq(text, LAMBDA l : StripWs(l[1]) = type)

\* the text is empty or holds white space only
TextBlank(text) == \A i \in 1..Len(text) : text[i] \in {<<"">>, <<" ">>}

\* the value a field of a '300' record stands for, in thousandths
FieldValue(s) == IF s = "" THEN 0 ELSE float(s)

\* field 1 of a '300' record is a date of 8 digits
DateOk(l) == Len(Chars(l[2])) = 8 /\ \A i \in 1..8 : Chars(l[2])[i] \in Digits

\* fields 2..289 of a '300' record are empty or numeric
ValuesOk(l) == \A i \in 3..290 : l[i] = "" \/ CanFloat(l[i])

\* a '300' record with at least 291 fields, a date, 288 values and a quality
\* flag of the known set
Decodable(l) ==
    /\ Len(l) >= 291
    /\ DateOk(l)
    /\ ValuesOk(l)
    /\ l[291] \in {"A", "V", "E", "S", "N", "F"}

ParseOk == parser.called /\ parser.outcome.status = "ok"

\* C15: when parse_nem12 returns, the readings are 288 per '300' record, and
\* reading i of the k-th '300' record has that record's date, the interval
\* index i, the value of that record's field 2+i (0.0 for an empty field) and
\* that record's quality flag.
C15_ReadingsPerRecord ==
    ParseOk =>
        LET recs == Records(parser.csv_content, "300")
            readings == parser.outcome.data.readings
        IN  /\ Len(readings) = 288 * Len(recs)
            /\ \A k \in 1..Len(recs) : \A i \in 0..287 :
                  readings[288 * (k - 1) + i + 1] =
                      [date |-> recs[k][2], interval |-> i,
                       value |-> FieldValue(recs[k][3 + i]),
                       quality |-> recs[k][291]]

\* a text with two '300' records of different dates, values and quality
\* flags has been parsed
C15_Witness ==
    /\ ParseOk
    /\ LET recs == Records(parser.csv_content, "300") IN
       /\ Len(recs) = 2
       /\ recs[1][2] # recs[2][2]
       /\ recs[1][3] # recs[2][3]
       /\ recs[1][291] # recs[2][291]

\* C16 (as claimed): when a parsed text holds more than one '200' record,
\* nmi, meter_serial, unit and interval_length of the dataset are those of
\* the first '200' record.
C16_FirstIdentityWins ==
    (ParseOk /\ Len(Records(parser.csv_content, "200")) > 1) =>
        LET first == Records(parser.csv_content, "200")[1]
            data == parser.outcome.data
        IN  /\ data.nmi = first[2]
            /\ data.meter_serial = (IF first[7] = "" THEN None ELSE first[7])
            /\ data.unit = (IF first[8] = "" THEN "KWH" ELSE first[8])
            /\ data.interval_length = (IF CanInt(first[9]) THEN int(first[9]) ELSE 5)

\* C17 (as claimed): every text without a '200' record fails with the parse
\* error "No 200 record found - missing NMI", the empty and the blank text
\* included; a dataset is returned only when a '200' record was seen.
C17_MissingIdentityError ==
    parser.called =>
        /\ Records(parser.csv_content, "200") = <<>> =>
              /\ parser.outcome.status = "error"
              /\ parser.outcome.err.kind = "NEM12ParseError"
              /\ parser.outcome.err.msg = "No 200 record found - missing NMI"
        /\ parser.outcome.status = "ok" => Records(parser.csv_content, "200") # <<>>

\* C17 (amended): a text without a '200' record never yields a dataset; when
\* it is empty or blank the failure is the parse error "Empty CSV content";
\* when it is not blank and each of its '300' records is decodable the
\* failure is the parse error "No 200 record found - missing NMI"; a dataset
\* is returned only when a '200' record was seen.
C17_NoIdentityNoDataset ==
    parser.called =>
        /\ Records(parser.csv_content, "200") = <<>> =>
              /\ parser.outcome.status = "error"
              /\ TextBlank(parser.csv_content) =>
                    /\ parser.outcome.err.kind = "NEM12ParseError"
                    /\ parser.outcome.err.msg = "Empty CSV content"
              /\ ( /\ ~TextBlank(parser.csv_content)
                   /\ \A k \in 1..Len(Records(parser.csv_content, "300")) :
                         Decodable(Records(parser.csv_content, "300")[k]) ) =>
                    /\ parser.outcome.err.kind = "NEM12ParseError"
                    /\ parser.outcome.err.msg = "No 200 record found - missing NMI"
        /\ parser.outcome.status = "ok" => Records(parser.csv_content, "200") # <<>>

\* a text of decodable '300' records and no '200' record has been rejected
C17_Witness ==
    /\ parser.called
    /\ Records(parser.csv_content, "200") = <<>>
    /\ Len(Records(parser.csv_content, "300")) = 2
    /\ \A k \in 1..2 : Decodable(Records(parser.csv_content, "300")[k])
    /\ parser.outcome.status = "error"

\* a malformed record: a '200' record of fewer than 9 fields, a '300' record
\* of fewer than 291 fields, with a date that is not 8 digits, or with a
\* value that is not numeric
Malformed(l) ==
    \/ StripWs(l[1]) = "200" /\ Len(l) < 9
    \/ /\ StripWs(l[1]) = "300"
       /\ \/ Len(l) < 291
          \/ ~DateOk(l)
          \/ ~ValuesOk(l)

\* C18 (as claimed): a text with a malformed record fails with a parse error,
\* whatever records precede or follow the malformed one.
C18_AllOrNothing ==
    ( /\ parser.called
      /\ \E i \in 1..Len(parser.csv_content) : Malformed(parser.csv_content[i]) ) =>
        /\ parser.outcome.status = "error"
        /\ parser.outcome.err.kind = "NEM12ParseError"

\* C19 (as claimed): parse_nem12 returns a dataset or fails with
\* NEM12ParseError; no other kind of error leaves it.
C19_OnlyParseErrors ==
    parser.called =>
        \/ parser.outcome.status = "ok"
        \/ /\ parser.outcome.status = "error"
           /\ parser.outcome.err.kind = "NEM12ParseError"

\* a '300' record that lacks only its quality flag: field 290 is empty or
\* the record ends after the 288 values
QualityAbsent(l) ==
    /\ StripWs(l[1]) = "300"
    /\ Len(l) >= 290
    /\ DateOk(l)
    /\ ValuesOk(l)
    /\ Len(l) >= 291 => l[291] = ""

\* C20 (as claimed): a text of one well-formed '200' record followed by one
\* '300' record that lacks only its quality flag is decoded, and the 288
\* readings of that record have quality "A".
C20_AbsentQualityDefaultsToA ==
    ( /\ parser.called
      /\ Len(parser.csv_content) = 2
      /\ parser.csv_content[1][1] = "200"
      /\ Len(parser.csv_content[1]) >= 9
      /\ QualityAbsent(parser.csv_content[2]) ) =>
        /\ parser.outcome.status = "ok"
        /\ Len(parser.outcome.data.readings) = 288
        /\ \A i \in 1..288 : parser.outcome.data.readings[i].quality = "A"

\* every '300' record of the text is decodable
AllDecodable(text) ==
    \A k \in 1..Len(Records(text, "300")) : Decodable(Records(text, "300")[k])

\* the text has exactly one '200' record, and that record has its 9 fields
OneIdentity(text) ==
    /\ Len(Records(text, "200")) = 1
    /\ Len(Records(text, "200")[1]) >= 9

\* C21: when the only '200' record of a text has an interval-length field
\* that is empty or no integer, an empty unit field or an empty serial field,
\* decoding fails only if a '300' record is not decodable; the dataset then
\* has interval_length 5, unit "KWH", no meter_serial respectively, and the
\* 288 readings of every '300' record.
C21_IdentityDefaults ==
    (parser.called /\ OneIdentity(parser.csv_content)) =>
        LET id == Records(parser.csv_content, "200")[1]
            data == parser.outcome.data
        IN  /\ (AllDecodable(parser.csv_content) /\ (id[9] \notin {"05", "30"} \/ id[8] = "" \/ id[7] = "")) =>
                  parser.outcome.status = "ok"
            /\ parser.outcome.status = "ok" =>
                  /\ id[9] \notin {"05", "30"} => data.interval_length = 5
                  /\ id[8] = "" => data.unit = "KWH"
                  /\ id[7] = "" => data.meter_serial = None
                  /\ Len(data.readings) = 288 * Len(Records(parser.csv_content, "300"))

\* a text whose '200' record has the interval length "xx" and is followed by
\* a '300' record has been decoded
C21_Witness ==
    /\ ParseOk
    /\ Len(parser.csv_content) >= 2
    /\ parser.csv_content[1][1] = "200"
    /\ Len(parser.csv_content[1]) >= 9
    /\ parser.csv_content[1][9] = "xx"
    /\ parser.csv_content[2][1] = "300"
    /\ parser.outcome.data.interval_length = 5
    /\ Len(parser.outcome.data.readings) >= 288

\* C22: the p-th reading of a dataset comes from the '300' record number
\* (p-1) div 288 + 1 in file order and has the interval index (p-1) mod 288,
\* whatever the dates of the records.
C22_FileOrder ==
    ParseOk =>
        LET recs == Records(parser.csv_content, "300")
            readings == parser.outcome.data.readings
        IN  /\ Len(readings) = 288 * Len(recs)
            /\ \A p \in 1..Len(readings) :
                  /\ readings[p].date = recs[((p - 1) \div 288) + 1][2]
                  /\ readings[p].interval = (p - 1) % 288

\* a text whose first '300' record has the later date has been decoded
C22_Witness ==
    /\ ParseOk
    /\ LET recs == Records(parser.csv_content, "300") IN
       /\ Len(recs) = 2
       /\ recs[1][2] = "20241207"
       /\ recs[2][2] = "20241206"
    /\ parser.outcome.data.readings[1].date = "20241207"

\* a line that is neither a '200' nor a '300' record (blank lines included)
Ignorable(l) == StripWs(l[1]) \notin {"200", "300"}

\* the text without its ignorable lines
Kept(text) == SelectSeq(text, LAMBDA l : ~Ignorable(l))

\* C23: a text with a '200' record and the same text without its ignorable
\* lines have the same outcome: the same dataset, or a failure of the same
\* kind.
C23_IgnoredLines ==
    (parser.called /\ Records(parser.csv_content, "200") # <<>>) =>
        LET kept == parse_nem12(Kept(parser.csv_content)) IN
        /\ parser.outcome.status = kept.status
        /\ parser.outcome.data = kept.data
        /\ parser.outcome.err.kind = kept.err.kind

\* a text with an unknown record before its '200' record and a '900' record
\* after it has been decoded
C23_Witness ==
    /\ ParseOk
    /\ Len(parser.csv_content) = 3
    /\ parser.csv_content[1] = <<"250", "x", "y">>
    /\ parser.csv_content[2][1] = "200"
    /\ parser.csv_content[3] = <<"900">>

\* C24 (as claimed): every reading of a returned dataset has a date of 8
\* digits, an interval index in 0..287, a value that is not negative and a
\* quality flag in {A,V,E,S,N,F}.
C24_ReadingInvariant ==
    ParseOk =>
        \A p \in 1..Len(parser.outcome.data.readings) :
            LET r == parser.outcome.data.readings[p] IN
            /\ Len(Chars(r.date)) = 8
            /\ \A i \in 1..8 : Chars(r.date)[i] \in Digits
            /\ r.interval \in 0..287
            /\ r.value >= 0
            /\ r.quality \in {"A", "V", "E", "S", "N", "F"}

\* C25 (as claimed): in a returned dataset no two readings have the same
\* date and interval index, and every date that occurs has 288 readings.
C25_SlotUnique ==
    ParseOk =>
        LET readings == parser.outcome.data.readings IN
        /\ \A p, q \in 1..Len(readings) :
              (readings[p].date = readings[q].date
                  /\ readings[p].interval = readings[q].interval) => p = q
        /\ \A p \in 1..Len(readings) :
              Cardinality({ q \in 1..Len(readings) :
                              readings[q].date = readings[p].date }) = 288

\* C26 (as claimed): in a returned dataset the slots of a day and the minutes
\* of a slot agree with the dataset's interval_length: the 288 slots of a
\* '300' record fill the 1440 minutes of a day, and the minute a reading's
\* interval index is turned into is the index times interval_length.
C26_SlotLengthConsistent ==
    ParseOk =>
        LET data == parser.outcome.data IN
        /\ (LAST_INTERVAL + 1) * data.interval_length = 1440
        /\ \A p \in 1..Len(data.readings) :
              minutes_of(data.readings[p].interval)
                  = data.readings[p].interval * data.interval_length

\* the characters of "HH:MM" for an hour and a minute of two digits each
Clock(h, m) ==
    <<DigitChar(h \div 10), DigitChar(h % 10), ":",
      DigitChar(m \div 10), DigitChar(m % 10)>>

\* the order of characters in a string comparison: the digits, then ":"
CharRank(c) == IF c = ":" THEN 10 ELSE DigitVal(c)

\* a < b as strings
RECURSIVE StrLess(_, _)
StrLess(a, b) ==
    IF b = <<>> THEN FALSE
    ELSE IF a = <<>> THEN TRUE
    ELSE IF a[1] # b[1] THEN CharRank(a[1]) < CharRank(b[1])
    ELSE StrLess(Tail(a), Tail(b))

\* C27: for every interval i in 0..287 that has been converted,
\* interval_to_time(i) is the zero-padded "HH:MM" with HH = (5*i) div 60 and
\* MM = (5*i) mod 60; the results are pairwise distinct and strictly
\* increasing in i, the first is "00:00" and the 288th is "23:55".
C27_ClockStrings ==
    LET times == clock.times IN
    /\ \A i \in 1..Len(times) :
          times[i] = Clock((5 * (i - 1)) \div 60, (5 * (i - 1)) % 60)
    /\ \A i, j \in 1..Len(times) :
          /\ i # j => times[i] # times[j]
          /\ i < j => StrLess(times[i], times[j])
    /\ Len(times) >= 1 => times[1] = <<"0", "0", ":", "0", "0">>
    /\ Len(times) = LAST_INTERVAL + 1
          => times[LAST_INTERVAL + 1] = <<"2", "3", ":", "5", "5">>

\* all 288 intervals of a date have been converted to a time
C27_Witness ==
    /\ Len(clock.times) = LAST_INTERVAL + 1
    /\ clock.times[13] = <<"0", "1", ":", "0", "0">>

\* the date has no daylight-saving transition in Australia/Adelaide
NoTransition(date) == date \in {"20260105", "20250615"}

\* C28: on a date without a daylight-saving transition, the epochs of two
\* consecutive intervals differ by 300 seconds, and the epoch of interval i
\* is 300*i seconds after the epoch of interval 0.
C28_RegularStep ==
    NoTransition(clock.date) =>
        LET epochs == clock.epochs IN
        /\ \A i \in 1..(Len(epochs) - 1) : epochs[i + 1] - epochs[i] = 300
        /\ \A i \in 1..Len(epochs) : epochs[i] - epochs[1] = 300 * (i - 1)

\* all 288 intervals of a summer day have been converted to an epoch; the
\* day starts at 2026-01-04 13:30 UTC
C28_Witness ==
    /\ clock.date = "20260105"
    /\ Len(clock.epochs) = LAST_INTERVAL + 1
    /\ clock.epochs[1] = 1767533400

\* C29 (as claimed): on a date with a daylight-saving transition, the epochs
\* of the intervals are pairwise distinct and strictly increasing in the
\* interval index.
C29_TransitionMonotone ==
    (clock.date # "" /\ ~NoTransition(clock.date)) =>
        \A i, j \in 1..Len(clock.epochs) :
            i < j => clock.epochs[i] < clock.epochs[j]

\* C30: when login, download or decoding fails in a run of run_scrape, no
\* sink operation has been called in that run, the gauge
\* sapn_scrape_success is 0 and the run has returned False; and a sink
\* operation is called in a run only after parse_nem12 has returned the
\* dataset of the downloaded payload.
C30_FailureWritesNothing ==
    /\ run.failed_at \in {"login", "download", "parse"}
          => /\ run.sinks = <<>>
             /\ run.gauge = 0
             /\ run.returned = "False"
    /\ run.sinks # <<>>
          => /\ run.data.status = "ok"
             /\ run.data = parse_nem12(run.csv_content)

\* the second run fails in parse_nem12 with an error that is no
\* NEM12ParseError
C30_Witness ==
    /\ run.runs = 2
    /\ run.failed_at = "parse"
    /\ run.error = "Exception"
    /\ run.returned = "False"

\* the runs of run_scrape that are executing: the startup run in the main
\* thread and the runs in the threads of the executor
Executing ==
    (IF sched.startup \in {"none", "returned"} THEN 0 ELSE 1)
        + Len(sched.instances)

\* C31: at most one run of run_scrape is executing at any time: the startup
\* run has returned when the scheduler is started, and a scheduled run
\* starts only when no other run is executing.
C31_OneRunAtATime ==
    /\ Executing <= 1
    /\ sched.main = "scheduling" => sched.startup = "returned"
    /\ sched.instances # <<>> => sched.main = "scheduling"

\* after the startup run has returned, the trigger has fired while a
\* scheduled run was writing to InfluxDB, and that firing was skipped
C31_Witness ==
    /\ sched.skipped >= 1
    /\ sched.instances = <<"write_readings">>
    /\ run.pc = "write_readings"
    /\ sched.startup = "returned"

\* C32: every run of run_scrape starts with a scraper that is not
\* authenticated, has no cookie and has no remoting context, whatever the
\* runs before it have done with their scrapers.
C32_FreshSession ==
    [][run'.runs # run.runs =>
          /\ run'.pc = "login"
          /\ run'.request = "login_get"
          /\ run'.sent = 1
          /\ authenticated' = FALSE
          /\ cookies' = {}
          /\ remoting_context' = NoContext]_vars

\* a run has started, with nothing in its session, after a run that logged
\* in, downloaded and succeeded
C32_Witness ==
    /\ run.pc = "login"
    /\ run.request = "login_get"
    /\ run.sent = 1
    /\ run.runs = 2
    /\ run.gauge = 1
    /\ cookies = {}

\* C36: a call of login() that fails ends with SAPNAuthError and a call of
\* download_nem12() that fails ends with SAPNDownloadError, whatever was
\* raised inside the call.
C36_OperationErrorKinds ==
    result.status = "error" =>
        result.err.kind = IF result.op = "login" THEN "SAPNAuthError"
                          ELSE "SAPNDownloadError"

\* download_nem12() has failed on an answer of the remoting endpoint that is
\* no JSON
C36_Witness ==
    /\ pc = "idle"
    /\ result.status = "error"
    /\ result.op = "download"
    /\ raised.kind = "JSONDecodeError"

\* a step keeps the flag when it is set, sets it only as the last step of a
\* login() that returns, and leaves a scraper whose login() once returned
\* with the flag set; no call has started while the flag is still unset
C37_Step ==
    /\ calls = 0 => ~authenticated
    /\ authenticated => authenticated'
    /\ (~authenticated /\ authenticated')
          => /\ op = "login"
             /\ pc' = "idle"
             /\ result'.op = "login"
             /\ result'.status = "ok"
    /\ login_succeeded' => authenticated'
    /\ (authenticated /\ pc = "idle" /\ op' = "download")
          => pc' # "idle"

\* C37: the authenticated flag of a scraper starts false, becomes true only
\* when a login() returns, and is never reset: after a login() that returned
\* and a later login() that failed it is still true, and download_nem12()
\* then goes on to its first request.
C37_FlagMonotonic == [][C37_Step]_vars

\* a login() of the scraper returned, its next login() failed, and the
\* download_nem12() called after them has received its data request page
C37_Witness ==
    /\ calls = 3
    /\ op = "download"
    /\ scrape = "none"
    /\ login_succeeded
    /\ last_login = "error"
    /\ authenticated
    /\ log # <<>>
    /\ log[Len(log)] = HttpEv("data_get", "ok")

\* the sink operations of a run that completed, in order
AllSinks == <<"write_readings", "write_daily_totals", "update_metrics">>

\* C38: every run of run_scrape ends with a return value; a run that fails
\* at any step returns False with the gauge sapn_scrape_success at 0; a run
\* returns True, with the gauge at 1, only when login, download, decoding
\* and all three sink operations completed; so between runs the gauge tells
\* how the last run ended.
C38_ReturnAndGaugeAgree ==
    /\ \A k \in 1..Len(run.returns) : run.returns[k] \in {"True", "False"}
    /\ Len(run.returns) = (IF run.pc = "idle" THEN run.runs ELSE run.runs - 1)
    /\ run.failed_at # "none"
          => /\ run.pc = "idle"
             /\ run.returned = "False"
             /\ run.gauge = 0
    /\ run.returned = "True"
          => /\ run.failed_at = "none"
             /\ run.gauge = 1
             /\ authenticated
             /\ run.data.status = "ok"
             /\ Len(run.sinks) = 3
             /\ \A k \in 1..3 : run.sinks[k].op = AllSinks[k]
    /\ (run.pc = "idle" /\ run.runs > 0)
          => /\ run.returned = run.returns[run.runs]
             /\ run.gauge = (IF run.returned = "True" THEN 1 ELSE 0)

\* after a run that returned True, a run has failed in update_metrics
C38_Witness ==
    /\ run.returns = <<"True", "False">>
    /\ run.failed_at = "update_metrics"
    /\ run.error = "Exception"
    /\ run.gauge = 0

\* the NMIs of the datasets
Nmis == { d.nmi : d \in Datasets }

\* the dates for which the per-interval gauge has a series of an NMI
SeriesDates(nmi) ==
    { labels[2] : labels \in { k \in DOMAIN metrics.electricity_kwh : k[1] = nmi } }

\* the dates of the readings of a dataset
DatesOf(data) == { data.readings[p].date : p \in 1..Len(data.readings) }

\* the k greatest dates of a set of dates
MostRecent(S, k) ==
    { d \in S : Cardinality({ e \in S : StrLess(Chars(d), Chars(e)) }) < k }

\* the smaller of two numbers
Least(a, b) == IF a < b THEN a ELSE b

\* C33 (as claimed): for every max_days and after any calls of
\* update_metrics, the per-interval gauge has series of at most max_days
\* dates for each NMI; after a call with readings the dates of the series of
\* that NMI are the min(max_days, number of dates) most recent dates of the
\* dataset, so series of dates outside this window are gone.
C33_IntervalWindow ==
    /\ \A nmi \in Nmis : Cardinality(SeriesDates(nmi)) <= metrics.max_days
    /\ (metrics.updates > 0 /\ metrics.data.readings # <<>>)
          => SeriesDates(metrics.data.nmi)
               = MostRecent(DatesOf(metrics.data),
                            Least(metrics.max_days,
                                  Cardinality(DatesOf(metrics.data))))

\* the sum of the values of the readings of a date
RECURSIVE SumOf(_, _, _)
SumOf(readings, date, upto) ==
    IF upto = 0 THEN 0
    ELSE SumOf(readings, date, upto - 1)
            + (IF readings[upto].date = date THEN readings[upto].value ELSE 0)

\* C34: after update_metrics with readings, the daily-total gauge has a
\* series for every date of the dataset, inside the window of max_days or
\* not, whose value is the sum of the values of that date's readings, and
\* the last-reading-date gauge of the NMI is the greatest date of the
\* readings, in whatever order they come.
C34_DailyTotalsAndLatest ==
    (metrics.updates > 0 /\ metrics.data.readings # <<>>) =>
        LET data == metrics.data IN
        /\ \A d \in DatesOf(data) :
              /\ <<data.nmi, d>> \in DOMAIN metrics.daily_total_kwh
              /\ metrics.daily_total_kwh[<<data.nmi, d>>]
                    = SumOf(data.readings, d, Len(data.readings))
        /\ <<data.nmi>> \in DOMAIN metrics.last_reading_date
        /\ \E d \in DatesOf(data) :
              /\ \A e \in DatesOf(data) \ {d} : StrLess(Chars(e), Chars(d))
              /\ metrics.last_reading_date[<<data.nmi>>] = IntOfChars(Chars(d))

\* an exporter with max_days 1 has been updated with four dates whose
\* latest is not the date of the last reading
C34_Witness ==
    /\ metrics.max_days = 1
    /\ metrics.updates = 2
    /\ Cardinality(DatesOf(metrics.data)) = 4
    /\ metrics.last_reading_date[<<"NMI1">>] = 20251005
    /\ metrics.daily_total_kwh[<<"NMI1", "20250615">>] = 300

\* C35: update_metrics with a dataset without readings leaves every series
\* of the three gauges and every tracked label set as it found them, on a
\* new exporter and on one that has series.
C35_EmptyUpdateChangesNothing ==
    (metrics.updates > 0 /\ metrics.data.readings = <<>>)
        => Exposed(metrics) = metrics.before

\* an exporter that has series has been updated with a dataset without
\* readings
C35_Witness ==
    /\ metrics.updates >= 2
    /\ metrics.data.readings = <<>>
    /\ metrics.before.electricity_kwh # NoSeries
    /\ metrics.electricity_kwh # NoSeries

====
